---------------------------- MODULE Spec2Model ----------------------------
(***************************************************************************)
(* State-machine model of the polybeat rhythm game engine                  *)
(* (src/src/client/game/App.tsx): note spawning on musical ticks, the      *)
(* motion model, tap judgment, timeout handling and score/combo state.     *)
(*                                                                         *)
(* Times are integer milliseconds of the audio clock.  Vertical positions  *)
(* are exact rationals in the source's arithmetic; they are carried here   *)
(* as integers in units of 1/PX pixel, PX being a common multiple of the   *)
(* three band travel times, so that every comparison of the source is      *)
(* decided exactly.                                                        *)
(***************************************************************************)
EXTENDS Integers, Sequences, FiniteSets, TLC

(***************************************************************************)
(* Program constants (App.tsx:40-62).                                      *)
(***************************************************************************)
HIT_WINDOW_MS == 420
NOTE_SIZE == 60
EXPECTED_SHAPE_SIZE == 100
HIT_CENTER_BIAS == 0
HIT_ZONE_OFFSET == 100
MIN_NOTE_SPACING == 40
TRAVEL_TIME == 2000
TICK_INTERVAL == 125
MIN_SILENCE_GAP == 250
ENERGY_THRESHOLD == 90
SHAPE_LOCK_DURATION == 10000
BAND_COOLDOWN_MS == 80
MAX_IDLE_MS == 500
PEAK_DELTA == 2
MISS_PENALTY == 50
HIT_DISPLAY_GRACE_MS == 200

AVAILABLE_BANDS == <<"bass", "mid", "treble">>

Band == {"bass", "mid", "treble"}

Shape == {"circle", "square", "triangle"}

(***************************************************************************)
(* Bounds of the model.                                                    *)
(***************************************************************************)
MaxTime == 3200

MaxNoteId == 2

\* one pixel = PX position units; PX = lcm(2300, 2000, 1700)
PX == 23 * 20 * 17 * 100

Heights == {320, 800}

Energies == {0, 200}

\* the audio clock is observed at the multiples of TimeStep and at the hit
\* times of the notes on the track
TimeStep == 4 * 100

\* the last instant of a session with stalls, and the grid of its clock
MaxStallTime == 22300

StallStep == 50 * 100

\* the last instant of a session with frames FineStep apart
MaxFineTime == 1600

FineStep == 2 * 100

\* the candidate selection is examined on two pending notes spawned
\* SelectGaps apart in a tall window that was then resized to one of
\* SelectHeights, at the instants SelectOffsets after the first hit time
SelectHeights == {200}

SelectGaps == {250, 300, 400}

SelectOffsets == {0, 100, 125, 150, 200, 250, 300, 400, 500}

SelectSpawnTime == 4 * 100

\* the motion model on its own: window heights (the lowest ones are below the
\* height of 104 px under which hitProgress is clamped at 0.01), spawn times
\* and the grid of the instants at which the note is projected
MaxMotionTime == 6000

MotionStep == 2 * 100

MotionHeights == {60, 100, 103, 104, 320, 800}

MotionSpawnTimes == {400, 1000}

\* the session with its end: window heights and tracked bands at the start
SessionHeights == {800}

SessionBands == {"treble"}

MaxSessionTime == 3500

SessionStep == 7 * 100

\* frames closer than the tick interval
MaxTickTime == 800

TickStepMs == 5 * 10

\* resolution to which the moving average of a band is kept
AvgUnit == 2 * 10

Abs(x) == IF x < 0 THEN -x ELSE x

Max(a, b) == IF a >= b THEN a ELSE b

Min(a, b) == IF a <= b THEN a ELSE b

\* the element of a one-element set
Only(S) == CHOOSE x \in S : TRUE

getShapeFromBand(band) ==
    IF band = "bass" THEN "circle"
    ELSE IF band = "treble" THEN "triangle"
    ELSE "square"

\* every band travelling for the base time
getTravelTimeForBand_Base(band) == TRAVEL_TIME

\* TRAVEL_TIME * 1.15, TRAVEL_TIME * 0.85, TRAVEL_TIME
getTravelTimeForBand(band) ==
    IF band = "bass" THEN (TRAVEL_TIME * 115) \div 100
    ELSE IF band = "treble" THEN (TRAVEL_TIME * 85) \div 100
    ELSE TRAVEL_TIME

(***************************************************************************)
(* MotionModel: getNotePosition (App.tsx:239-258).  The result is the top  *)
(* of the note in position units (pixels * PX).                            *)
(***************************************************************************)
startTopY == (0 - NOTE_SIZE - 20) * PX

startCenterY == startTopY + (NOTE_SIZE * PX) \div 2

nominalHitCenterY(screenHeight) ==
    (screenHeight - HIT_ZONE_OFFSET - HIT_CENTER_BIAS) * PX - (EXPECTED_SHAPE_SIZE * PX) \div 2

offScreenCenterY(screenHeight) == (screenHeight + NOTE_SIZE + 100) * PX

\* hitProgress with the hit distance measured from the top of the note
hitProgress_FromTop(screenHeight) ==
    LET totalDistance == offScreenCenterY(screenHeight) - startCenterY
        hitDistance == nominalHitCenterY(screenHeight) - startCenterY - (NOTE_SIZE * PX) \div 2
    IN  IF 100 * (hitDistance \div PX) < (totalDistance \div PX) THEN <<1, 100>>
        ELSE IF 100 * (hitDistance \div PX) > 99 * (totalDistance \div PX) THEN <<99, 100>>
        ELSE <<hitDistance \div PX, totalDistance \div PX>>

\* hitProgress = max(0.01, min(0.99, hitDistance / totalDistance)) as the
\* fraction <<numerator, denominator>>
hitProgress(screenHeight) ==
    LET totalDistance == offScreenCenterY(screenHeight) - startCenterY
        hitDistance == nominalHitCenterY(screenHeight) - startCenterY
    IN  IF 100 * (hitDistance \div PX) < (totalDistance \div PX) THEN <<1, 100>>
        ELSE IF 100 * (hitDistance \div PX) > 99 * (totalDistance \div PX) THEN <<99, 100>>
        ELSE <<hitDistance \div PX, totalDistance \div PX>>

\* progress = 1: elapsed >= totalTravelTime
ReachedEnd(note, currentTime, height) ==
    LET hp == hitProgress(height)
    IN  (currentTime - note.spawnTime) * hp[1] >= note.travelTime * hp[2]

\* getNotePosition without the early return for a note that has not started
getNotePosition_NoStartGuard(note, currentTime, screenHeight) ==
    LET elapsed == currentTime - note.spawnTime
        totalDistance == offScreenCenterY(screenHeight) - startCenterY
        hp == hitProgress(screenHeight)
        atEnd == ReachedEnd(note, currentTime, screenHeight)
        travelled == IF hp[2] = 100
                     THEN (elapsed * hp[1] * (totalDistance \div PX)
                            * (PX \div note.travelTime)) \div 100
                     ELSE elapsed * hp[1] * (PX \div note.travelTime)
        centerY == IF atEnd THEN startCenterY + totalDistance
                   ELSE startCenterY + travelled
    IN  centerY - (NOTE_SIZE * PX) \div 2

\* progress * totalDistance, progress = min(1, elapsed / totalTravelTime) and
\* totalTravelTime = travelTime / hitProgress; with an unclamped hitProgress
\* this is elapsed * hitDistance / travelTime, an exact multiple of 1/PX
getNotePosition(note, currentTime, screenHeight) ==
    LET elapsed == currentTime - note.spawnTime
        totalDistance == offScreenCenterY(screenHeight) - startCenterY
        hp == hitProgress(screenHeight)
        atEnd == ReachedEnd(note, currentTime, screenHeight)
        travelled == IF hp[2] = 100
                     THEN (elapsed * hp[1] * (totalDistance \div PX)
                            * (PX \div note.travelTime)) \div 100
                     ELSE elapsed * hp[1] * (PX \div note.travelTime)
        centerY == IF atEnd THEN startCenterY + totalDistance
                   ELSE startCenterY + travelled
    IN  IF elapsed <= 0 THEN startTopY
        ELSE centerY - (NOTE_SIZE * PX) \div 2

(***************************************************************************)
(* Hit box geometry: getHitboxMetrics (App.tsx:481-501).  The indicator's  *)
(* bounding rectangle is read from the page.  NoRect: the ref is empty and *)
(* the constants are used; they are also the indicator's box as laid out   *)
(* (bottom: HIT_ZONE_OFFSET, height: EXPECTED_SHAPE_SIZE, App.tsx:874-884).*)
(* ProjectedRect: the box getBoundingClientRect measures on screen.  The   *)
(* indicator is rotated by rotateX(15deg) (App.tsx:884), so that its box   *)
(* spans 150 -/+ 50 cos 15 = 101.7 .. 198.3 px above the bottom of the     *)
(* track layer, and the layer is transformed about its bottom edge by      *)
(* perspective(700px) rotateX(22deg) scaleY(1.12) (App.tsx:799-805), which *)
(* maps a point d above the bottom to                                      *)
(* 1.12 d cos 22 * 700 / (700 + 1.12 d sin 22): 99.5 .. 184.0 px.  In      *)
(* whole pixels the measured box is 84 px high with its top 184 px above   *)
(* the bottom of the viewport.                                             *)
(***************************************************************************)
NoRect == [top |-> 0, height |-> 0]

ProjectedRect(height) ==
    [top |-> height - (HIT_ZONE_OFFSET + EXPECTED_SHAPE_SIZE - 16),
     height |-> EXPECTED_SHAPE_SIZE - 16]

HitRects(height) == {NoRect, ProjectedRect(height)}

getHitboxMetrics(rect, screenHeight) ==
    IF rect # NoRect
    THEN [hitCenterY |-> rect.top * PX + (rect.height * PX) \div 2,
          hitboxRadius |-> (rect.height * PX) \div 2,
          hitTop |-> rect.top * PX,
          hitBottom |-> (rect.top + rect.height) * PX]
    ELSE LET hitCenterY == nominalHitCenterY(screenHeight)
             hitboxRadius == (EXPECTED_SHAPE_SIZE * PX) \div 2
         IN  [hitCenterY |-> hitCenterY,
              hitboxRadius |-> hitboxRadius,
              hitTop |-> hitCenterY - hitboxRadius,
              hitBottom |-> hitCenterY + hitboxRadius]

\* the tolerances computed at the head of handleTap and of update
noteRadius == (NOTE_SIZE * PX) \div 2

requiredOverlap == (NOTE_SIZE * PX * 4) \div 10

maxCenterDistance(m) == m.hitboxRadius + noteRadius - requiredOverlap

extraBottomAllowance(m) == m.hitboxRadius \div 2

entrySlack == (NOTE_SIZE * PX) \div 10

topTighten(m) == m.hitboxRadius \div 4

allowedDistance(noteCenterY, m) ==
    IF noteCenterY > m.hitCenterY
    THEN maxCenterDistance(m) + extraBottomAllowance(m)
    ELSE maxCenterDistance(m)

IsActive(note) == ~note.hit /\ ~note.missed

(***************************************************************************)
(* State.  stateRef.current (GameState, App.tsx:76-84) is kept as one      *)
(* variable per field; the other variables are the refs and React state    *)
(* the handlers read and write.                                            *)
(***************************************************************************)
VARIABLES
    isPlaying,            \* useState isPlaying
    now,                  \* audio.currentTime * 1000
    screenHeight,         \* window.innerHeight
    indicatorRect,        \* expectedShapeRef.current?.getBoundingClientRect()
    notes,                \* state.notes
    score,                \* state.score
    combo,                \* state.combo
    trackBand,            \* trackBandRef.current
    activeShape,          \* state.activeShape
    lastNoteId,           \* state.lastNoteId
    lastSpawnTime,        \* state.lastSpawnTime
    lastShapeChangeTime,  \* state.lastShapeChangeTime
    lastTickTime,         \* lastTickTimeRef.current
    bandEnergy,           \* bandEnergyRef.current
    isHittable,           \* isHittableRef.current
    feedback,             \* useState feedback (its type, "none" for null)
    isSuccessFlash,       \* useState isSuccessFlash
    mounted,              \* the component is mounted (its effects are live)
    tasks,                \* the delayed tasks (setTimeout) that are outstanding
    feedbackTimeoutRef,   \* feedbackTimeoutRef.current (the timer's handle, 0 for null)
    removes,              \* per note id, the calls of remove() on its element
    ev                    \* the last handler run and what it did (history)

vars == <<isPlaying, now, screenHeight, indicatorRect, notes, score, combo, trackBand, activeShape,
          lastNoteId, lastSpawnTime, lastShapeChangeTime, lastTickTime, bandEnergy,
          isHittable, feedback, isSuccessFlash, mounted, tasks, feedbackTimeoutRef, removes, ev>>

NoEvent == [op |-> "idle", spawn |-> "-", tap |-> "-", hitId |-> 0, combo0 |-> 0,
            lock0 |-> 0, fb |-> "-", purged |-> 0, missed |-> 0, task |-> "-",
            taskId |-> 0, released |-> {}, removed |-> 0, cleared |-> FALSE, penalised |-> 0]

Init ==
    /\ isPlaying = FALSE
    /\ now = 0
    /\ screenHeight \in Heights
    /\ indicatorRect \in HitRects(screenHeight)
    /\ notes = <<>>
    /\ score = 0
    /\ combo = 0
    /\ \E k \in 1..Len(AVAILABLE_BANDS) :
          /\ trackBand = AVAILABLE_BANDS[k]
          /\ activeShape = getShapeFromBand(AVAILABLE_BANDS[k])
    /\ lastNoteId = 0
    /\ lastSpawnTime = 0 - MIN_SILENCE_GAP
    /\ lastShapeChangeTime = 0
    /\ lastTickTime = 0
    /\ bandEnergy = [b \in Band |-> [avg |-> 0, last |-> 0, lastTrigger |-> 0 - BAND_COOLDOWN_MS]]
    /\ isHittable = FALSE
    /\ feedback = "none"
    /\ isSuccessFlash = FALSE
    /\ mounted = TRUE
    /\ tasks = {}
    /\ feedbackTimeoutRef = 0
    /\ removes = [i \in 1..lastNoteId |-> 0]
    /\ ev = NoEvent

(***************************************************************************)
(* NoteSpawner helpers.                                                    *)
(***************************************************************************)
\* wouldOverlap finding nothing in the way
wouldOverlap_Never(newNoteTime, currentTime, travelTime) == FALSE

\* wouldOverlap with half the spacing
wouldOverlap_HalfSpacing(newNoteTime, currentTime, travelTime) ==
    LET newNote == [id |-> 0, shape |-> "circle", spawnTime |-> newNoteTime,
                    hitTime |-> newNoteTime + travelTime, travelTime |-> travelTime,
                    hit |-> FALSE, missed |-> FALSE, element |-> FALSE]
        newNoteY == getNotePosition(newNote, currentTime, screenHeight)
    IN  \E k \in 1..Len(notes) :
           /\ IsActive(notes[k])
           /\ Abs(newNoteY - getNotePosition(notes[k], currentTime, screenHeight))
                 < (MIN_NOTE_SPACING \div 2) * PX

\* wouldOverlap (App.tsx:260-286)
wouldOverlap(newNoteTime, currentTime, travelTime) ==
    LET newNote == [id |-> 0, shape |-> "circle", spawnTime |-> newNoteTime,
                    hitTime |-> newNoteTime + travelTime, travelTime |-> travelTime,
                    hit |-> FALSE, missed |-> FALSE, element |-> FALSE]
        newNoteY == getNotePosition(newNote, currentTime, screenHeight)
    IN  \E k \in 1..Len(notes) :
           /\ IsActive(notes[k])
           /\ Abs(newNoteY - getNotePosition(notes[k], currentTime, screenHeight))
                 < MIN_NOTE_SPACING * PX

\* a purge that finds no note to clear
IsCleared_Never(note, shape) == FALSE

\* the notes explodeAndClearActiveNotes (App.tsx:288-335) splices out of the
\* list ns when the active shape is shape
IsCleared(note, shape) ==
    /\ IsActive(note)
    /\ note.shape # shape
    /\ note.element

\* the purge clearing nothing
explodeAndClearActiveNotes_KeepsAll(ns, shape) == ns

explodeAndClearActiveNotes(ns, shape) ==
    SelectSeq(ns, LAMBDA n : ~IsCleared(n, shape))

\* the EMA of trySpawnNote, avg * 0.7 + energy * 0.3, rounded to the nearest
\* multiple of AvgUnit
NextAvg(avg, energy) ==
    AvgUnit * ((7 * avg + 3 * energy + 5 * AvgUnit) \div (10 * AvgUnit))

isPeak(energy, avg, delta) ==
    /\ energy > ENERGY_THRESHOLD
    /\ energy * 100 > avg * 105
    /\ delta > PEAK_DELTA

\* the sample of trySpawnNote written to the state of every band
SpawnSample_AllBands(currentTime, energy) ==
    LET bandState == bandEnergy[trackBand]
        avg == NextAvg(bandState.avg, energy)
        delta == energy - bandState.last
        sampled == [b \in Band |-> [bandEnergy[b] EXCEPT !.avg = avg, !.last = energy]]
        isIdle == currentTime - lastSpawnTime > MAX_IDLE_MS
        hasActiveNotes == \E k \in 1..Len(notes) : IsActive(notes[k])
    IN  [peak |-> isPeak(energy, avg, delta),
         allowFallback |-> isIdle /\ ~hasActiveNotes,
         sampled |-> sampled,
         triggered |-> [sampled EXCEPT ![trackBand].lastTrigger = currentTime]]

\* the sample of trySpawnNote with the idle fallback left out
SpawnSample_NoFallback(currentTime, energy) ==
    LET bandState == bandEnergy[trackBand]
        avg == NextAvg(bandState.avg, energy)
        delta == energy - bandState.last
        sampled == [bandEnergy EXCEPT ![trackBand].avg = avg, ![trackBand].last = energy]
    IN  [peak |-> isPeak(energy, avg, delta),
         allowFallback |-> FALSE,
         sampled |-> sampled,
         triggered |-> [sampled EXCEPT ![trackBand].lastTrigger = currentTime]]

\* the onset test and the fallback test of trySpawnNote (App.tsx:385-404) for
\* one energy sample of the tracked band
SpawnSample(currentTime, energy) ==
    LET bandState == bandEnergy[trackBand]
        avg == NextAvg(bandState.avg, energy)
        delta == energy - bandState.last
        sampled == [bandEnergy EXCEPT ![trackBand].avg = avg, ![trackBand].last = energy]
        isIdle == currentTime - lastSpawnTime > MAX_IDLE_MS
        hasActiveNotes == \E k \in 1..Len(notes) : IsActive(notes[k])
    IN  [peak |-> isPeak(energy, avg, delta),
         allowFallback |-> isIdle /\ ~hasActiveNotes,
         sampled |-> sampled,
         triggered |-> [sampled EXCEPT ![trackBand].lastTrigger = currentTime]]

\* trySpawnNote going on without a peak and without the fallback
SpawnOutcome_NoQuiet(currentTime, energy) ==
    LET sm == SpawnSample(currentTime, energy)
    IN  IF currentTime - lastSpawnTime < MIN_SILENCE_GAP THEN "gap"
        ELSE IF sm.peak /\ currentTime - bandEnergy[trackBand].lastTrigger < BAND_COOLDOWN_MS
             THEN "cooldown"
        ELSE IF wouldOverlap(currentTime, currentTime, getTravelTimeForBand(trackBand))
             THEN "overlap"
        ELSE "spawned"

\* trySpawnNote without the silence gap
SpawnOutcome_NoGap(currentTime, energy) ==
    LET sm == SpawnSample(currentTime, energy)
    IN  IF ~sm.peak /\ ~sm.allowFallback THEN "quiet"
        ELSE IF sm.peak /\ currentTime - bandEnergy[trackBand].lastTrigger < BAND_COOLDOWN_MS
             THEN "cooldown"
        ELSE IF wouldOverlap(currentTime, currentTime, getTravelTimeForBand(trackBand))
             THEN "overlap"
        ELSE "spawned"

\* the place where trySpawnNote returns
SpawnOutcome(currentTime, energy) ==
    LET sm == SpawnSample(currentTime, energy)
    IN  IF currentTime - lastSpawnTime < MIN_SILENCE_GAP THEN "gap"
        ELSE IF ~sm.peak /\ ~sm.allowFallback THEN "quiet"
        ELSE IF sm.peak /\ currentTime - bandEnergy[trackBand].lastTrigger < BAND_COOLDOWN_MS
             THEN "cooldown"
        ELSE IF wouldOverlap(currentTime, currentTime, getTravelTimeForBand(trackBand))
             THEN "overlap"
        ELSE "spawned"

\* a new note that takes the same id every time
NewNote_FixedId(currentTime) ==
    [id |-> 1, shape |-> getShapeFromBand(trackBand),
     spawnTime |-> currentTime,
     hitTime |-> currentTime + getTravelTimeForBand(trackBand),
     travelTime |-> getTravelTimeForBand(trackBand),
     hit |-> FALSE, missed |-> FALSE, element |-> TRUE]

\* the note trySpawnNote creates (App.tsx:466-475)
NewNote(currentTime) ==
    [id |-> lastNoteId + 1, shape |-> getShapeFromBand(trackBand),
     spawnTime |-> currentTime,
     hitTime |-> currentTime + getTravelTimeForBand(trackBand),
     travelTime |-> getTravelTimeForBand(trackBand),
     hit |-> FALSE, missed |-> FALSE, element |-> TRUE]

\* trySpawnNote stamping lastSpawnTime before the overlap check
trySpawnNote_StampsBeforeOverlap(currentTime, energy) ==
    Only({[outcome |-> outcome,
           notes |-> IF outcome = "spawned"
                     THEN Append(explodeAndClearActiveNotes(notes, activeShape),
                                 NewNote(currentTime))
                     ELSE notes,
           lastNoteId |-> IF outcome = "spawned" THEN lastNoteId + 1 ELSE lastNoteId,
           lastSpawnTime |-> IF outcome \in {"spawned", "overlap"} THEN currentTime
                             ELSE lastSpawnTime,
           bandEnergy |-> IF outcome = "gap" THEN bandEnergy
                          ELSE IF outcome \in {"quiet", "cooldown"} \/ ~sm.peak
                               THEN sm.sampled
                          ELSE sm.triggered,
           purged |-> IF outcome = "spawned"
                      THEN Len(notes) - Len(explodeAndClearActiveNotes(notes, activeShape))
                      ELSE 0] :
             sm \in {SpawnSample(currentTime, energy)},
             outcome \in {SpawnOutcome(currentTime, energy)}})

\* trySpawnNote (App.tsx:381-479): the fields it leaves behind and the place
\* where it returned
trySpawnNote(currentTime, energy) ==
    Only({[outcome |-> outcome,
           notes |-> IF outcome = "spawned"
                     THEN Append(explodeAndClearActiveNotes(notes, activeShape),
                                 NewNote(currentTime))
                     ELSE notes,
           lastNoteId |-> IF outcome = "spawned" THEN lastNoteId + 1 ELSE lastNoteId,
           lastSpawnTime |-> IF outcome = "spawned" THEN currentTime ELSE lastSpawnTime,
           bandEnergy |-> IF outcome = "gap" THEN bandEnergy
                          ELSE IF outcome \in {"quiet", "cooldown"} \/ ~sm.peak
                               THEN sm.sampled
                          ELSE sm.triggered,
           purged |-> IF outcome = "spawned"
                      THEN Len(notes) - Len(explodeAndClearActiveNotes(notes, activeShape))
                      ELSE 0] :
             sm \in {SpawnSample(currentTime, energy)},
             outcome \in {SpawnOutcome(currentTime, energy)}})

(***************************************************************************)
(* JudgmentEngine: handleTap (App.tsx:503-588).                            *)
(***************************************************************************)
TimeDiff(note, currentTime) == Abs(currentTime - note.hitTime)

\* the candidate loop without the test on the note's top edge
PassesTapChecks_NoTopTighten(note, currentTime, m) ==
    LET noteTopY == getNotePosition(note, currentTime, screenHeight)
        noteCenterY == noteTopY + noteRadius
        noteBottomY == noteTopY + NOTE_SIZE * PX
        distanceFromHit == Abs(noteCenterY - m.hitCenterY)
    IN  IF noteBottomY < m.hitTop - entrySlack THEN FALSE
        ELSE IF distanceFromHit > allowedDistance(noteCenterY, m) THEN FALSE
        ELSE IF TimeDiff(note, currentTime) > HIT_WINDOW_MS THEN FALSE
        ELSE TRUE

\* the candidate loop without the distance test
PassesTapChecks_NoDistance(note, currentTime, m) ==
    LET noteTopY == getNotePosition(note, currentTime, screenHeight)
        noteBottomY == noteTopY + NOTE_SIZE * PX
    IN  IF noteBottomY < m.hitTop - entrySlack THEN FALSE
        ELSE IF noteTopY < m.hitTop + topTighten(m) THEN FALSE
        ELSE IF TimeDiff(note, currentTime) > HIT_WINDOW_MS THEN FALSE
        ELSE TRUE

\* the body of the candidate loop (App.tsx:519-532): TRUE when no continue
\* statement skips the note
PassesTapChecks(note, currentTime, m) ==
    LET noteTopY == getNotePosition(note, currentTime, screenHeight)
        noteCenterY == noteTopY + noteRadius
        noteBottomY == noteTopY + NOTE_SIZE * PX
        distanceFromHit == Abs(noteCenterY - m.hitCenterY)
    IN  IF noteBottomY < m.hitTop - entrySlack THEN FALSE
        ELSE IF noteTopY < m.hitTop + topTighten(m) THEN FALSE
        ELSE IF distanceFromHit > allowedDistance(noteCenterY, m) THEN FALSE
        ELSE IF TimeDiff(note, currentTime) > HIT_WINDOW_MS THEN FALSE
        ELSE TRUE

\* the loop replacing the candidate it holds on a tie
RECURSIVE ClosestFrom_LastTie(_, _, _, _, _)
ClosestFrom_LastTie(ns, k, best, currentTime, m) ==
    IF k > Len(ns) THEN best
    ELSE IF /\ IsActive(ns[k])
            /\ PassesTapChecks(ns[k], currentTime, m)
            /\ (best = 0 \/ TimeDiff(ns[k], currentTime) <= TimeDiff(ns[best], currentTime))
         THEN ClosestFrom_LastTie(ns, k + 1, k, currentTime, m)
         ELSE ClosestFrom_LastTie(ns, k + 1, best, currentTime, m)

\* the loop running over every note of the list, hit and missed ones too
RECURSIVE ClosestFrom_AnyNote(_, _, _, _, _)
ClosestFrom_AnyNote(ns, k, best, currentTime, m) ==
    IF k > Len(ns) THEN best
    ELSE IF /\ PassesTapChecks(ns[k], currentTime, m)
            /\ (best = 0 \/ TimeDiff(ns[k], currentTime) < TimeDiff(ns[best], currentTime))
         THEN ClosestFrom_AnyNote(ns, k + 1, k, currentTime, m)
         ELSE ClosestFrom_AnyNote(ns, k + 1, best, currentTime, m)

\* the loop over activeNotes (App.tsx:516-538): the index in ns of closestNote
\* after the notes from k on were visited, 0 for null
RECURSIVE ClosestFrom(_, _, _, _, _)
ClosestFrom(ns, k, best, currentTime, m) ==
    IF k > Len(ns) THEN best
    ELSE IF /\ IsActive(ns[k])
            /\ PassesTapChecks(ns[k], currentTime, m)
            /\ (best = 0 \/ TimeDiff(ns[k], currentTime) < TimeDiff(ns[best], currentTime))
         THEN ClosestFrom(ns, k + 1, k, currentTime, m)
         ELSE ClosestFrom(ns, k + 1, best, currentTime, m)

ClosestNote(ns, currentTime, m) == ClosestFrom(ns, 1, 0, currentTime, m)

\* the award with the sign slipped
ScoreAfterHit_Subtracts(s, c) == s - 100 * (c + 1)

\* the award computed from the combo after the hit's own increment is left out
ScoreAfterHit_OldCombo(s, c) == s + 100 * c

\* state.score += 100 * (state.combo + 1)
ScoreAfterHit(s, c) == s + 100 * (c + 1)

\* a tap that is no hit taking one off the combo
ComboAfterMiss_Decrements(c) == IF c > 0 THEN c - 1 ELSE c

\* a tap that is no hit leaving the combo alone
ComboAfterMiss_Keeps(c) == c

\* state.combo = 0 on a tap that is no hit (App.tsx:574, 579-582)
ComboAfterMiss(c) == IF c > 0 THEN 0 ELSE c

\* the lock test passing at any time
lockElapsed_Always(currentTime) == TRUE

\* currentTime - state.lastShapeChangeTime >= SHAPE_LOCK_DURATION (App.tsx:565)
lockElapsed(currentTime) == currentTime - lastShapeChangeTime >= SHAPE_LOCK_DURATION

\* the hit flag moving to the note that was hit last
hitNote_OnlyLast(ns, k) ==
    [i \in 1..Len(ns) |-> IF i = k THEN [ns[i] EXCEPT !.hit = TRUE, !.element = FALSE]
                          ELSE [ns[i] EXCEPT !.hit = FALSE]]

\* a hit that leaves the element on the note
hitNote_KeepsElement(ns, k) == [ns EXCEPT ![k].hit = TRUE]

\* closestNote.hit = true (App.tsx:541) and explodeSingleNote (App.tsx:559,
\* 337-378), which hands the note's element over to the explosion
hitNote(ns, k) == [ns EXCEPT ![k].hit = TRUE, ![k].element = FALSE]

\* setTrackBandMode leaving the shape of the old band in force
setTrackBandMode_KeepsShape(band) == [trackBand |-> band, activeShape |-> activeShape]

\* setTrackBandMode (App.tsx:109-115): the band and the shape it puts in force
setTrackBandMode(band) == [trackBand |-> band, activeShape |-> getShapeFromBand(band)]

\* the rotation picking from all the bands, the current one included
NextBands_All(band) == {AVAILABLE_BANDS[k] : k \in 1..Len(AVAILABLE_BANDS)}

\* the bands the rotation picks from (App.tsx:566-569)
NextBands(band) ==
    {AVAILABLE_BANDS[k] : k \in {j \in 1..Len(AVAILABLE_BANDS) : AVAILABLE_BANDS[j] # band}}

\* the delayed tasks: the expiry of the feedback text (App.tsx:123-125), the
\* reset of the success flash after a hit (App.tsx:556) and the removal of an
\* exploded note's element (App.tsx:328-332, 373-377)
FeedbackTask(id) == [kind |-> "feedback", id |-> id]

FlashTask(id) == [kind |-> "flash", id |-> id]

DisposeTask(id) == [kind |-> "dispose", id |-> id]

\* triggerFeedback (App.tsx:117-126): the pending expiry is cleared and a
\* new one is set
\* the handle window.setTimeout returns (App.tsx:123): a positive number no
\* outstanding timer has
NewHandle(ts) ==
    CHOOSE h \in 1..(Cardinality(ts) + 1) :
        /\ FeedbackTask(h) \notin ts
        /\ \A g \in 1..(h - 1) : FeedbackTask(g) \in ts

\* window.clearTimeout(feedbackTimeoutRef.current) (App.tsx:120-122, 707-709)
clearTimeout(ts, ref) == IF ref # 0 THEN ts \ {FeedbackTask(ref)} ELSE ts

\* the timer feedbackTimeoutRef.current names has not fired yet
TimerPending(ts, ref) == ref # 0 /\ FeedbackTask(ref) \in ts

\* a new expiry set without clearing the pending one
triggerFeedback_NoClear(ts, ref) ==
    [tasks |-> ts \cup {FeedbackTask(NewHandle(ts))}, ref |-> NewHandle(ts)]

triggerFeedback(ts, ref) ==
    [tasks |-> clearTimeout(ts, ref) \cup {FeedbackTask(NewHandle(clearTimeout(ts, ref)))},
     ref |-> NewHandle(clearTimeout(ts, ref))]

\* the ids of the notes a purge spliced out of the list, each handing its
\* element to a removal timer (App.tsx:325-332)
SplicedIds(ns, after) ==
    {ns[k].id : k \in 1..Len(ns)} \ {after[k].id : k \in 1..Len(after)}

handleTap ==
    /\ isPlaying
    /\ \E currentTime \in {now} :
       \E closest \in {ClosestNote(notes, currentTime,
                                   getHitboxMetrics(indicatorRect, screenHeight))} :
           IF closest # 0 /\ notes[closest].shape = activeShape
           THEN \* explodeSingleNote hands the element over to the explosion
                LET marked == hitNote(notes, closest)
                    cleared == explodeAndClearActiveNotes(marked, activeShape)
                    rotate == lockElapsed(currentTime)
                IN  /\ score' = ScoreAfterHit(score, combo)
                    /\ combo' = combo + 1
                    /\ feedback' = "hit"
                    /\ \E nextBand \in (IF rotate THEN NextBands(trackBand) ELSE {trackBand}) :
                          /\ trackBand' = IF rotate THEN setTrackBandMode(nextBand).trackBand
                                          ELSE trackBand
                          /\ activeShape' = IF rotate THEN setTrackBandMode(nextBand).activeShape
                                            ELSE activeShape
                          /\ lastShapeChangeTime' = IF rotate THEN currentTime
                                                    ELSE lastShapeChangeTime
                          /\ notes' = explodeAndClearActiveNotes(cleared, activeShape')
                    /\ isSuccessFlash' = TRUE
                    /\ feedbackTimeoutRef' = triggerFeedback(tasks, feedbackTimeoutRef).ref
                    /\ tasks' = triggerFeedback(tasks, feedbackTimeoutRef).tasks
                                  \cup {FlashTask(notes[closest].id)}
                                  \cup (IF notes[closest].element
                                        THEN {DisposeTask(notes[closest].id)} ELSE {})
                                  \cup {DisposeTask(i) : i \in SplicedIds(notes, notes')}
                    /\ ev' = [NoEvent EXCEPT !.op = "tap", !.tap = "hit",
                                             !.hitId = notes[closest].id,
                                             !.combo0 = combo,
                                             !.lock0 = lastShapeChangeTime, !.fb = "hit",
                                             !.purged = Len(notes) - Len(notes'),
                                             !.cleared = TimerPending(tasks, feedbackTimeoutRef)]
           ELSE /\ combo' = ComboAfterMiss(combo)
                /\ feedback' = "miss"
                /\ notes' = explodeAndClearActiveNotes(notes, activeShape)
                /\ feedbackTimeoutRef' = triggerFeedback(tasks, feedbackTimeoutRef).ref
                /\ tasks' = triggerFeedback(tasks, feedbackTimeoutRef).tasks
                                \cup {DisposeTask(i) : i \in SplicedIds(notes, notes')}
                /\ ev' = [NoEvent EXCEPT !.op = "tap",
                                         !.tap = IF closest # 0 THEN "mismatch" ELSE "none",
                                         !.combo0 = combo, !.fb = "miss",
                                         !.purged = Len(notes) - Len(notes'),
                                         !.cleared = TimerPending(tasks, feedbackTimeoutRef)]
                /\ UNCHANGED <<score, trackBand, activeShape, lastShapeChangeTime,
                               isSuccessFlash>>
    /\ UNCHANGED <<isPlaying, now, screenHeight, indicatorRect, lastNoteId, lastSpawnTime, lastTickTime,
                   bandEnergy, isHittable, mounted, removes>>

(***************************************************************************)
(* GameLoop: update (App.tsx:600-699).                                     *)
(***************************************************************************)
offScreenThreshold == (screenHeight + NOTE_SIZE + 50) * PX

\* the published test when it leaves out the top-edge condition
IsHittableNote_NoTopTighten(note, currentTime, m) ==
    LET y == getNotePosition(note, currentTime, screenHeight)
        noteCenterY == y + noteRadius
        noteBottomY == y + NOTE_SIZE * PX
        distanceFromHit == Abs(noteCenterY - m.hitCenterY)
    IN  /\ TimeDiff(note, currentTime) <= HIT_WINDOW_MS
        /\ distanceFromHit <= allowedDistance(noteCenterY, m)
        /\ noteBottomY >= m.hitTop - entrySlack

\* the test that publishes the hittable flag (App.tsx:662-668)
IsHittableNote(note, currentTime, m) ==
    LET y == getNotePosition(note, currentTime, screenHeight)
        noteCenterY == y + noteRadius
        noteBottomY == y + NOTE_SIZE * PX
        distanceFromHit == Abs(noteCenterY - m.hitCenterY)
    IN  /\ TimeDiff(note, currentTime) <= HIT_WINDOW_MS
        /\ distanceFromHit <= allowedDistance(noteCenterY, m)
        /\ noteBottomY >= m.hitTop - entrySlack
        /\ y >= m.hitTop + topTighten(m)

\* the timeout test (App.tsx:672-676)
IsTimedOut(note, currentTime, m) ==
    LET y == getNotePosition(note, currentTime, screenHeight)
        noteCenterY == y + noteRadius
        noteBottomY == y + NOTE_SIZE * PX
        distanceFromHit == Abs(noteCenterY - m.hitCenterY)
    IN  /\ currentTime > note.hitTime + HIT_WINDOW_MS
        /\ distanceFromHit > allowedDistance(noteCenterY, m)
        /\ noteBottomY < m.hitTop - entrySlack

\* state.score = Math.max(0, state.score - 50)
ScoreAfterMiss(s) == Max(0, s - MISS_PENALTY)

\* the removal tests at the head of the loop body (App.tsx:633-645)
IsOffScreen(note, currentTime) ==
    getNotePosition(note, currentTime, screenHeight) > offScreenThreshold

IsPastGrace(note, currentTime) ==
    note.hit /\ currentTime - note.hitTime > HIT_DISPLAY_GRACE_MS

\* a splice that takes nothing out
RemoveAt_Keeps(ns, k) == ns

\* state.notes.splice(i, 1) (App.tsx:636, 642)
RemoveAt(ns, k) == SubSeq(ns, 1, k - 1) \o SubSeq(ns, k + 1, Len(ns))

\* the body of the loop over state.notes (App.tsx:625-691) for the note at
\* index k; st carries what the iterations change
LoopBody(k, st, currentTime, m) ==
    LET note == st.notes[k]
        removed == [st EXCEPT !.notes = RemoveAt(st.notes, k), !.removed = @ + 1,
                              !.released = IF note.element THEN @ \cup {note.id} ELSE @]
        seen == [st EXCEPT !.hittableNow = @ \/ IsHittableNote(note, currentTime, m)]
        marked == [seen EXCEPT !.notes[k].missed = TRUE, !.missed = @ + 1]
    IN  IF IsOffScreen(note, currentTime) THEN removed
        ELSE IF note.hit
             THEN IF IsPastGrace(note, currentTime) THEN removed ELSE st
        ELSE IF note.missed THEN st
        ELSE IF IsTimedOut(note, currentTime, m)
             THEN IF note.shape = activeShape
                  THEN [marked EXCEPT !.combo = 0, !.score = ScoreAfterMiss(@),
                                      !.fb = "miss"]
                  ELSE marked
        ELSE seen

\* the loop from index k down to the first note (App.tsx:624)
RECURSIVE UpdateLoop(_, _, _, _)
UpdateLoop(k, st, currentTime, m) ==
    IF k < 1 THEN st
    ELSE Only({UpdateLoop(k - 1, next, currentTime, m) :
                  next \in {LoopBody(k, st, currentTime, m)}})

\* a spawn attempt in every frame
tickDue_Always(currentTime) == TRUE

\* the tick gate of update (App.tsx:619)
tickDue(currentTime) == currentTime - lastTickTime >= TICK_INTERVAL

\* one run of update at the current audio time
UpdateBody(energy, op) ==
    \E currentTime \in {now}, m \in {getHitboxMetrics(indicatorRect, screenHeight)} :
    \E tick \in {tickDue(currentTime)} :
    \E sp \in {IF tick THEN trySpawnNote(currentTime, energy)
               ELSE [outcome |-> "notick", notes |-> notes, lastNoteId |-> lastNoteId,
                     lastSpawnTime |-> lastSpawnTime, bandEnergy |-> bandEnergy,
                     purged |-> 0]} :
    \E st \in {UpdateLoop(Len(sp.notes),
                           [notes |-> sp.notes, score |-> score, combo |-> combo,
                            hittableNow |-> FALSE, fb |-> "-", missed |-> 0,
                            removed |-> 0, released |-> {}],
                           currentTime, m)} :
        /\ sp.outcome = "spawned" => lastNoteId < MaxNoteId
        /\ lastTickTime' = IF tick THEN currentTime ELSE lastTickTime
        /\ lastNoteId' = sp.lastNoteId
        /\ lastSpawnTime' = sp.lastSpawnTime
        /\ bandEnergy' = sp.bandEnergy
        /\ notes' = st.notes
        /\ score' = st.score
        /\ combo' = st.combo
        /\ isHittable' = st.hittableNow
        /\ feedback' = IF st.fb = "miss" THEN "miss" ELSE feedback
        /\ feedbackTimeoutRef' = IF st.fb = "miss"
                                 THEN triggerFeedback(tasks, feedbackTimeoutRef).ref
                                 ELSE feedbackTimeoutRef
        /\ tasks' = (IF st.fb = "miss" THEN triggerFeedback(tasks, feedbackTimeoutRef).tasks
                     ELSE tasks)
                        \cup {DisposeTask(i) : i \in SplicedIds(notes, sp.notes)}
        /\ removes' = [i \in 1..sp.lastNoteId |->
                           IF i > lastNoteId THEN 0
                           ELSE IF i \in st.released THEN removes[i] + 1
                           ELSE removes[i]]
        /\ ev' = [NoEvent EXCEPT !.op = op, !.spawn = sp.outcome,
                                 !.fb = st.fb, !.purged = sp.purged,
                                 !.missed = st.missed, !.released = st.released,
                                 !.removed = st.removed,
                                 !.cleared = st.fb = "miss"
                                             /\ TimerPending(tasks, feedbackTimeoutRef)]
        /\ UNCHANGED <<now, screenHeight, indicatorRect, trackBand, activeShape, lastShapeChangeTime,
                       isSuccessFlash, mounted>>

\* requestAnimationFrame(update): one frame
update(energy) ==
    /\ isPlaying
    /\ UpdateBody(energy, "update")
    /\ UNCHANGED isPlaying

\* handleStart (App.tsx:148-164) and the effect it triggers (App.tsx:183-201,
\* 597-598, 701): the handlers are attached and update runs once
handleStart(energy) ==
    /\ mounted
    /\ ~isPlaying
    /\ isPlaying' = TRUE
    /\ UpdateBody(energy, "start")

\* cleanup leaving the notes in the list
clearNotes_KeepsAll(ns) == ns

\* state.notes = [] (App.tsx:711)
clearNotes(ns) == << >>

\* window.clearTimeout(feedbackTimeoutRef.current) (App.tsx:707-709): the
\* only timer the cleanup cancels
cancelTasks(ts) == clearTimeout(ts, feedbackTimeoutRef)

\* the cleanup of the effect (App.tsx:703-712), run when the component is
\* unmounted while it plays: the frame and the tap handlers are detached, the
\* feedback timer is cleared, every element still held by a note is removed
\* and the list is emptied
cleanup ==
    /\ mounted
    /\ isPlaying
    /\ isPlaying' = FALSE
    /\ mounted' = FALSE
    /\ tasks' = cancelTasks(tasks)
    /\ removes' = [i \in 1..lastNoteId |->
                      IF \E k \in 1..Len(notes) : notes[k].id = i /\ notes[k].element
                      THEN removes[i] + 1 ELSE removes[i]]
    /\ notes' = clearNotes(notes)
    /\ ev' = [NoEvent EXCEPT !.op = "cleanup", !.purged = Len(notes),
                             !.released = {notes[k].id : k \in {j \in 1..Len(notes) :
                                                                   notes[j].element}}]
    /\ UNCHANGED <<now, screenHeight, indicatorRect, score, combo, trackBand, activeShape,
                   lastNoteId, lastSpawnTime, lastShapeChangeTime, lastTickTime, bandEnergy,
                   isHittable, feedback, isSuccessFlash, feedbackTimeoutRef>>

\* document.body.contains(el): the element is in the page until remove() is
\* called on it or the component is unmounted
InDocument(id) == mounted /\ removes[id] = 0

\* a removal timer that also splices the note out of the list
TaskFires_SplicesNote(task) ==
    /\ task \in tasks
    /\ tasks' = tasks \ {task}
    /\ notes' = SelectSeq(notes, LAMBDA n : n.id # task.id)
    /\ combo' = IF task.kind = "feedback" THEN 0 ELSE combo
    /\ ev' = [NoEvent EXCEPT !.op = "timer", !.task = task.kind, !.taskId = task.id]
    /\ UNCHANGED <<isPlaying, now, screenHeight, indicatorRect, score, trackBand,
                   activeShape, lastNoteId, lastSpawnTime, lastShapeChangeTime, lastTickTime,
                   bandEnergy, isHittable, mounted, feedback, isSuccessFlash, removes,
                   feedbackTimeoutRef>>

\* a delayed task runs (the callbacks at App.tsx:123-125, 556, 329-333 and
\* 373-377); a state update of an unmounted component is dropped
TaskFires(task) ==
    /\ task \in tasks
    /\ tasks' = tasks \ {task}
    /\ feedback' = IF task.kind = "feedback" /\ mounted THEN "none" ELSE feedback
    /\ isSuccessFlash' = IF task.kind = "flash" /\ mounted THEN FALSE ELSE isSuccessFlash
    /\ removes' = IF task.kind = "dispose" /\ InDocument(task.id)
                  THEN [removes EXCEPT ![task.id] = @ + 1]
                  ELSE removes
    /\ ev' = [NoEvent EXCEPT !.op = "timer", !.task = task.kind, !.taskId = task.id,
                             !.released = IF task.kind = "dispose" /\ InDocument(task.id)
                                          THEN {task.id} ELSE {}]
    /\ UNCHANGED <<isPlaying, now, screenHeight, indicatorRect, notes, score, combo, trackBand,
                   activeShape, lastNoteId, lastSpawnTime, lastShapeChangeTime, lastTickTime,
                   bandEnergy, isHittable, mounted, feedbackTimeoutRef>>

\* the instants at which the clock is next observed: the next multiple of
\* TimeStep, or the hit time of a note that comes before it
NextGridTime == (now \div TimeStep + 1) * TimeStep

NextTimes ==
    {NextGridTime}
        \cup {notes[k].hitTime : k \in {j \in 1..Len(notes) :
                                           /\ IsActive(notes[j])
                                           /\ notes[j].hitTime > now
                                           /\ notes[j].hitTime < NextGridTime}}

\* the audio clock moves on between two handlers
Advance(t) ==
    /\ isPlaying
    /\ t <= MaxTime
    /\ now' = t
    /\ ev' = [NoEvent EXCEPT !.op = "advance"]
    /\ UNCHANGED <<isPlaying, screenHeight, indicatorRect, notes, score, combo, trackBand, activeShape,
                   lastNoteId, lastSpawnTime, lastShapeChangeTime, lastTickTime,
                   bandEnergy, isHittable, feedback, isSuccessFlash, mounted, tasks, feedbackTimeoutRef, removes>>

\* the page is stalled (a hidden tab runs no frame) while the audio plays on:
\* the clock is next observed at a multiple of StallStep, or at the hit time
\* of a note that comes before it
StallGridTime == (now \div StallStep + 1) * StallStep

StallTimes ==
    {StallGridTime}
        \cup {notes[k].hitTime : k \in {j \in 1..Len(notes) :
                                           /\ IsActive(notes[j])
                                           /\ notes[j].hitTime > now
                                           /\ notes[j].hitTime < StallGridTime}}

Stall(t) ==
    /\ isPlaying
    /\ t <= MaxStallTime
    /\ now' = t
    /\ ev' = [NoEvent EXCEPT !.op = "advance"]
    /\ UNCHANGED <<isPlaying, screenHeight, indicatorRect, notes, score, combo, trackBand, activeShape,
                   lastNoteId, lastSpawnTime, lastShapeChangeTime, lastTickTime,
                   bandEnergy, isHittable, feedback, isSuccessFlash, mounted, tasks, feedbackTimeoutRef, removes>>

\* frames that come FineStep of audio time apart
FineTimes == {(now \div FineStep + 1) * FineStep}

Frame(t) ==
    /\ isPlaying
    /\ t <= MaxFineTime
    /\ now' = t
    /\ ev' = [NoEvent EXCEPT !.op = "advance"]
    /\ UNCHANGED <<isPlaying, screenHeight, indicatorRect, notes, score, combo, trackBand, activeShape,
                   lastNoteId, lastSpawnTime, lastShapeChangeTime, lastTickTime,
                   bandEnergy, isHittable, feedback, isSuccessFlash, mounted, tasks, feedbackTimeoutRef, removes>>

Next ==
    \/ \E e \in Energies : handleStart(e)
    \/ \E e \in Energies : update(e)
    \/ handleTap
    \/ \E t \in NextTimes : Advance(t)

Spec == Init /\ [][Next]_vars

\* a session that keeps running over a quiet track: every frame requests the
\* next one (App.tsx:698) and the audio clock keeps moving while the track
\* plays, so neither update nor the clock waits forever
LiveEnergies == {0}

LastTime == (MaxTime \div TimeStep) * TimeStep

NextLive ==
    \/ \E e \in LiveEnergies : handleStart(e)
    \/ \E e \in LiveEnergies : update(e)
    \/ handleTap
    \/ \E t \in NextTimes : Advance(t)

SpecLive ==
    /\ Init
    /\ [][NextLive]_vars
    /\ WF_vars(\E e \in LiveEnergies : update(e))
    /\ WF_vars(\E t \in NextTimes : Advance(t))

\* the session with its end and its delayed tasks: the handlers of Next with
\* the clock observed every SessionStep (and at the hit times), the cleanup at
\* any point of the play, and every outstanding task firing at any point after
\* it was set
SessionGridTime == (now \div SessionStep + 1) * SessionStep

SessionTimes ==
    {SessionGridTime}
        \cup {notes[k].hitTime : k \in {j \in 1..Len(notes) :
                                           /\ IsActive(notes[j])
                                           /\ notes[j].hitTime > now
                                           /\ notes[j].hitTime < SessionGridTime}}

Elapse(t) ==
    /\ isPlaying
    /\ t <= MaxSessionTime
    /\ now' = t
    /\ ev' = [NoEvent EXCEPT !.op = "advance"]
    /\ UNCHANGED <<isPlaying, screenHeight, indicatorRect, notes, score, combo, trackBand, activeShape,
                   lastNoteId, lastSpawnTime, lastShapeChangeTime, lastTickTime,
                   bandEnergy, isHittable, feedback, isSuccessFlash, mounted, tasks, feedbackTimeoutRef, removes>>

NextSession ==
    \/ \E e \in Energies : handleStart(e)
    \/ \E e \in Energies : update(e)
    \/ handleTap
    \/ \E t \in SessionTimes : Elapse(t)
    \/ cleanup
    \/ \E task \in tasks : TaskFires(task)

\* the session spec starts in a window of SessionHeights, tracking one of
\* SessionBands
InitSession ==
    /\ Init
    /\ screenHeight \in SessionHeights
    /\ trackBand \in SessionBands

SpecSession == InitSession /\ [][NextSession]_vars

\* the same handlers over a session long enough for the shape lock to elapse
NextStall ==
    \/ \E e \in Energies : handleStart(e)
    \/ \E e \in Energies : update(e)
    \/ handleTap
    \/ \E t \in StallTimes : Stall(t)

SpecStall == Init /\ [][NextStall]_vars

\* the same handlers with the clock observed every FineStep
NextFine ==
    \/ \E e \in Energies : handleStart(e)
    \/ \E e \in Energies : update(e)
    \/ handleTap
    \/ \E t \in FineTimes : Frame(t)

SpecFine == Init /\ [][NextFine]_vars

\* the same handlers with frames TickStepMs of audio time apart, closer than
\* the tick interval
TickTimes == {(now \div TickStepMs + 1) * TickStepMs}

Paint(t) ==
    /\ isPlaying
    /\ t <= MaxTickTime
    /\ now' = t
    /\ ev' = [NoEvent EXCEPT !.op = "advance"]
    /\ UNCHANGED <<isPlaying, screenHeight, indicatorRect, notes, score, combo, trackBand, activeShape,
                   lastNoteId, lastSpawnTime, lastShapeChangeTime, lastTickTime,
                   bandEnergy, isHittable, feedback, isSuccessFlash, mounted, tasks, feedbackTimeoutRef, removes>>

NextTick ==
    \/ \E e \in Energies : handleStart(e)
    \/ \E e \in Energies : update(e)
    \/ handleTap
    \/ \E t \in TickTimes : Paint(t)

SpecTick == Init /\ [][NextTick]_vars

\* handleTap on two pending notes of the tracked band: the first spawned by
\* the idle fallback, the second on a peak gap later, in a window that was
\* resized to height afterwards
InitSelect ==
    /\ isPlaying = TRUE
    /\ screenHeight \in SelectHeights
    /\ indicatorRect \in HitRects(screenHeight)
    /\ trackBand \in Band
    /\ activeShape = getShapeFromBand(trackBand)
    /\ \E gap \in SelectGaps, offset \in SelectOffsets :
          /\ notes = << [id |-> 1, shape |-> getShapeFromBand(trackBand),
                         spawnTime |-> SelectSpawnTime,
                         hitTime |-> SelectSpawnTime + getTravelTimeForBand(trackBand),
                         travelTime |-> getTravelTimeForBand(trackBand),
                         hit |-> FALSE, missed |-> FALSE, element |-> TRUE],
                        [id |-> 2, shape |-> getShapeFromBand(trackBand),
                         spawnTime |-> SelectSpawnTime + gap,
                         hitTime |-> SelectSpawnTime + gap + getTravelTimeForBand(trackBand),
                         travelTime |-> getTravelTimeForBand(trackBand),
                         hit |-> FALSE, missed |-> FALSE, element |-> TRUE] >>
          /\ lastSpawnTime = SelectSpawnTime + gap
          /\ lastTickTime = SelectSpawnTime + gap
          /\ bandEnergy = [b \in Band |->
                              IF b = trackBand
                              THEN [avg |-> NextAvg(0, 200), last |-> 200,
                                    lastTrigger |-> SelectSpawnTime + gap]
                              ELSE [avg |-> 0, last |-> 0, lastTrigger |-> 0 - BAND_COOLDOWN_MS]]
          /\ now = SelectSpawnTime + getTravelTimeForBand(trackBand) + offset
    /\ score = 0
    /\ combo = 0
    /\ lastNoteId = 2
    /\ lastShapeChangeTime = 0
    /\ isHittable = FALSE
    /\ feedback = "none"
    /\ isSuccessFlash = FALSE
    /\ mounted = TRUE
    /\ tasks = {}
    /\ feedbackTimeoutRef = 0
    /\ removes = [i \in 1..lastNoteId |-> 0]
    /\ ev = NoEvent

NextSelect == handleTap

SpecSelect == InitSelect /\ [][NextSelect]_vars

\* getNotePosition on its own: one pending note of any band in a window of
\* any of MotionHeights, projected at the instants of MotionTimes (a grid and
\* the note's hit time) in any order, as update does when it writes the note's transform (App.tsx:688-690)
MotionTimes ==
    {k * MotionStep : k \in 0..(MaxMotionTime \div MotionStep)} \cup {notes[1].hitTime}

InitMotion ==
    /\ isPlaying = TRUE
    /\ screenHeight \in MotionHeights
    /\ indicatorRect = NoRect
    /\ trackBand \in Band
    /\ activeShape = getShapeFromBand(trackBand)
    /\ \E spawnTime \in MotionSpawnTimes :
          /\ notes = << [id |-> 1, shape |-> getShapeFromBand(trackBand),
                         spawnTime |-> spawnTime,
                         hitTime |-> spawnTime + getTravelTimeForBand(trackBand),
                         travelTime |-> getTravelTimeForBand(trackBand),
                         hit |-> FALSE, missed |-> FALSE, element |-> TRUE] >>
          /\ lastSpawnTime = spawnTime
          /\ lastTickTime = spawnTime
          /\ now = spawnTime
    /\ bandEnergy = [b \in Band |-> [avg |-> 0, last |-> 0, lastTrigger |-> 0 - BAND_COOLDOWN_MS]]
    /\ score = 0
    /\ combo = 0
    /\ lastNoteId = 1
    /\ lastShapeChangeTime = 0
    /\ isHittable = FALSE
    /\ feedback = "none"
    /\ isSuccessFlash = FALSE
    /\ mounted = TRUE
    /\ tasks = {}
    /\ feedbackTimeoutRef = 0
    /\ removes = [i \in 1..lastNoteId |-> 0]
    /\ ev = NoEvent

\* note.element.style.transform = translateY(y) at audio time t
Project(t) ==
    /\ now' = t
    /\ ev' = [op |-> "project", from |-> now,
              y |-> getNotePosition(notes[1], t, screenHeight)]
    /\ UNCHANGED <<isPlaying, screenHeight, indicatorRect, notes, score, combo, trackBand,
                   activeShape, lastNoteId, lastSpawnTime, lastShapeChangeTime, lastTickTime,
                   bandEnergy, isHittable, feedback, isSuccessFlash, mounted, tasks, feedbackTimeoutRef, removes>>

NextMotion == \E t \in MotionTimes : Project(t)

SpecMotion == InitMotion /\ [][NextMotion]_vars

(***************************************************************************)
(* The pause/play variant (src/unnamed/part_000).  The audio element's     *)
(* play and pause events set isPlaying (part_000:83-92); the game effect   *)
(* runs while isPlaying holds and its cleanup runs at a pause              *)
(* (part_000:106-421).  stateRef and lastTickTimeRef are refs of the       *)
(* component and live as long as it is mounted.  The variant has no        *)
(* tracked band, no purge, no feedback text and reads the hit box from the *)
(* constants; its notes all travel for TRAVEL_TIME.                        *)
(***************************************************************************)
Part0_HIT_WINDOW_MS == 250

Part0_MIN_NOTE_SPACING == 60

Part0_MIN_SILENCE_GAP == 600

Part0_ENERGY_THRESHOLD == 100

Part0_SHAPE_LOCK_DURATION == 3000

\* window heights of the variant's sessions
Part0Heights == {800}

MaxPart0Time == 2800

Part0Step == 2 * 100

\* stateRef as the component is mounted (part_000:45-54)
InitPart0 ==
    /\ isPlaying = FALSE
    /\ now = 0
    /\ screenHeight \in Part0Heights
    /\ indicatorRect = NoRect
    /\ notes = <<>>
    /\ score = 0
    /\ combo = 0
    /\ trackBand = "bass"
    /\ activeShape = "circle"
    /\ lastNoteId = 0
    /\ lastSpawnTime = 0 - Part0_MIN_SILENCE_GAP
    /\ lastShapeChangeTime = 0
    /\ lastTickTime = 0
    /\ bandEnergy = [b \in Band |-> [avg |-> 0, last |-> 0, lastTrigger |-> 0 - BAND_COOLDOWN_MS]]
    /\ isHittable = FALSE
    /\ feedback = "none"
    /\ isSuccessFlash = FALSE
    /\ mounted = TRUE
    /\ tasks = {}
    /\ feedbackTimeoutRef = 0
    /\ removes = [i \in 1..lastNoteId |-> 0]
    /\ ev = NoEvent

\* getNotePosition (part_000:155-174): the computation of App.tsx:239-258
\* with TRAVEL_TIME for every note
Part0_getNotePosition(note, currentTime, height) ==
    getNotePosition([note EXCEPT !.travelTime = TRAVEL_TIME], currentTime, height)

\* wouldOverlap (part_000:176-197)
Part0_wouldOverlap(newNoteTime, currentTime) ==
    LET newNote == [id |-> 0, shape |-> "circle", spawnTime |-> newNoteTime,
                    hitTime |-> newNoteTime + TRAVEL_TIME, travelTime |-> TRAVEL_TIME,
                    hit |-> FALSE, missed |-> FALSE, element |-> FALSE]
        newNoteY == Part0_getNotePosition(newNote, currentTime, screenHeight)
    IN  \E k \in 1..Len(notes) :
           /\ IsActive(notes[k])
           /\ Abs(newNoteY - Part0_getNotePosition(notes[k], currentTime, screenHeight))
                 < Part0_MIN_NOTE_SPACING * PX

\* the place where trySpawnNote returns (part_000:202, 221, 227)
Part0_SpawnOutcome(currentTime, energy) ==
    IF currentTime - lastSpawnTime < Part0_MIN_SILENCE_GAP THEN "gap"
    ELSE IF energy < Part0_ENERGY_THRESHOLD THEN "quiet"
    ELSE IF Part0_wouldOverlap(currentTime, currentTime) THEN "overlap"
    ELSE "spawned"

\* the note trySpawnNote creates (part_000:248-256)
Part0_NewNote(currentTime, selectedBand) ==
    [id |-> lastNoteId + 1, shape |-> getShapeFromBand(selectedBand),
     spawnTime |-> currentTime, hitTime |-> currentTime + TRAVEL_TIME,
     travelTime |-> TRAVEL_TIME,
     hit |-> FALSE, missed |-> FALSE, element |-> TRUE]

\* trySpawnNote (part_000:200-260); selectedBand is the band the random draw
\* picks (part_000:211-217; every band has a positive weight) and energy the
\* energy of that band
Part0_trySpawnNote(currentTime, selectedBand, energy) ==
    Only({[outcome |-> outcome,
           notes |-> IF outcome = "spawned"
                     THEN Append(notes, Part0_NewNote(currentTime, selectedBand))
                     ELSE notes,
           lastNoteId |-> IF outcome = "spawned" THEN lastNoteId + 1 ELSE lastNoteId,
           lastSpawnTime |-> IF outcome = "spawned" THEN currentTime ELSE lastSpawnTime] :
             outcome \in {Part0_SpawnOutcome(currentTime, energy)}})

\* the tolerances of handleTap (part_000:269-274)
Part0_requiredOverlap == NOTE_SIZE * 55 * (PX \div 100)

Part0_maxCenterDistance == (EXPECTED_SHAPE_SIZE * PX) \div 2 + noteRadius - Part0_requiredOverlap

\* the two tests of the candidate loop (part_000:280-286)
Part0_PassesTapChecks(note, currentTime) ==
    /\ TimeDiff(note, currentTime) <= Part0_HIT_WINDOW_MS
    /\ Abs(Part0_getNotePosition(note, currentTime, screenHeight) + noteRadius
             - nominalHitCenterY(screenHeight)) <= Part0_maxCenterDistance

\* the candidate loop (part_000:279-292): the index of closestNote, 0 for
\* null
RECURSIVE Part0_ClosestFrom(_, _, _, _)
Part0_ClosestFrom(ns, k, best, currentTime) ==
    IF k > Len(ns) THEN best
    ELSE IF /\ IsActive(ns[k])
            /\ Part0_PassesTapChecks(ns[k], currentTime)
            /\ (best = 0 \/ TimeDiff(ns[k], currentTime) < TimeDiff(ns[best], currentTime))
         THEN Part0_ClosestFrom(ns, k + 1, k, currentTime)
         ELSE Part0_ClosestFrom(ns, k + 1, best, currentTime)

\* handleTap (part_000:264-337)
Part0_handleTap ==
    /\ isPlaying
    /\ \E currentTime \in {now} :
       \E closest \in {Part0_ClosestFrom(notes, 1, 0, currentTime)} :
           IF closest = 0
           THEN /\ ev' = [NoEvent EXCEPT !.op = "tap", !.tap = "none", !.combo0 = combo]
                /\ UNCHANGED <<notes, score, combo, activeShape, lastShapeChangeTime,
                               isSuccessFlash, tasks>>
           ELSE \E shapeMatch \in {notes[closest].shape = activeShape},
                   rotate \in {currentTime - lastShapeChangeTime >= Part0_SHAPE_LOCK_DURATION} :
                /\ notes' = IF shapeMatch THEN [notes EXCEPT ![closest].hit = TRUE] ELSE notes
                /\ score' = IF shapeMatch THEN ScoreAfterHit(score, combo) ELSE score
                /\ combo' = IF shapeMatch THEN combo + 1 ELSE 0
                /\ isSuccessFlash' = (shapeMatch \/ isSuccessFlash)
                /\ tasks' = IF shapeMatch THEN tasks \cup {FlashTask(notes[closest].id)}
                            ELSE tasks
                /\ \E nextShape \in (IF rotate THEN Shape \ {activeShape} ELSE {activeShape}) :
                      activeShape' = nextShape
                /\ lastShapeChangeTime' = IF rotate THEN currentTime ELSE lastShapeChangeTime
                /\ ev' = [NoEvent EXCEPT !.op = "tap",
                                         !.tap = IF shapeMatch THEN "hit" ELSE "mismatch",
                                         !.hitId = IF shapeMatch THEN notes[closest].id ELSE 0,
                                         !.combo0 = combo, !.lock0 = lastShapeChangeTime]
    /\ UNCHANGED <<isPlaying, now, screenHeight, indicatorRect, trackBand, lastNoteId,
                   lastSpawnTime, lastTickTime, bandEnergy, isHittable, feedback, mounted,
                   feedbackTimeoutRef, removes>>

\* a timeout as soon as the hit time has passed
Part0_IsTimedOut_AtHitTime(note, currentTime) == currentTime > note.hitTime

\* the timeout test of update (part_000:395)
Part0_IsTimedOut(note, currentTime) == currentTime > note.hitTime + Part0_HIT_WINDOW_MS

\* a timeout that charges the penalty whatever the note's shape
Part0_Penalised_AnyShape(note) == TRUE

\* the test that guards the penalty of a timeout (part_000:397)
Part0_Penalised(note) == note.shape = activeShape

\* the body of the loop over state.notes (part_000:368-408) for the note at
\* index k
Part0_LoopBody(k, st, currentTime) ==
    LET note == st.notes[k]
        removed == [st EXCEPT !.notes = RemoveAt(st.notes, k), !.removed = @ + 1,
                              !.released = IF note.element THEN @ \cup {note.id} ELSE @]
        marked == [st EXCEPT !.notes[k].missed = TRUE, !.missed = @ + 1]
    IN  IF Part0_getNotePosition(note, currentTime, screenHeight) > offScreenThreshold
        THEN removed
        ELSE IF note.hit
             THEN IF currentTime - note.hitTime > HIT_DISPLAY_GRACE_MS THEN removed ELSE st
        ELSE IF note.missed THEN st
        ELSE IF Part0_IsTimedOut(note, currentTime)
             THEN IF Part0_Penalised(note)
                  THEN [marked EXCEPT !.combo = 0, !.score = Max(0, @ - MISS_PENALTY),
                                      !.penalised = @ + 1]
                  ELSE marked
        ELSE st

\* the loop from index k down to the first note (part_000:368)
RECURSIVE Part0_UpdateLoop(_, _, _)
Part0_UpdateLoop(k, st, currentTime) ==
    IF k < 1 THEN st
    ELSE Only({Part0_UpdateLoop(k - 1, next, currentTime) :
                  next \in {Part0_LoopBody(k, st, currentTime)}})

\* one run of update (part_000:349-411) at the current audio time
Part0_UpdateBody(selectedBand, energy, op) ==
    \E currentTime \in {now} :
    \E tick \in {currentTime - lastTickTime >= TICK_INTERVAL} :
    \E sp \in {IF tick THEN Part0_trySpawnNote(currentTime, selectedBand, energy)
               ELSE [outcome |-> "notick", notes |-> notes, lastNoteId |-> lastNoteId,
                     lastSpawnTime |-> lastSpawnTime]} :
    \E st \in {Part0_UpdateLoop(Len(sp.notes),
                                 [notes |-> sp.notes, score |-> score, combo |-> combo,
                                  missed |-> 0, penalised |-> 0, removed |-> 0,
                                  released |-> {}],
                                 currentTime)} :
        /\ sp.outcome = "spawned" => lastNoteId < MaxNoteId
        /\ lastTickTime' = IF tick THEN currentTime ELSE lastTickTime
        /\ lastNoteId' = sp.lastNoteId
        /\ lastSpawnTime' = sp.lastSpawnTime
        /\ notes' = st.notes
        /\ score' = st.score
        /\ combo' = st.combo
        /\ removes' = [i \in 1..sp.lastNoteId |->
                           IF i > lastNoteId THEN 0
                           ELSE IF i \in st.released THEN removes[i] + 1
                           ELSE removes[i]]
        /\ ev' = [NoEvent EXCEPT !.op = op, !.spawn = sp.outcome,
                                 !.missed = st.missed, !.penalised = st.penalised,
                                 !.combo0 = combo,
                                 !.released = st.released, !.removed = st.removed]
        /\ UNCHANGED <<now, screenHeight, indicatorRect, trackBand, activeShape,
                       lastShapeChangeTime, bandEnergy, isHittable, feedback, isSuccessFlash,
                       mounted, tasks, feedbackTimeoutRef>>

\* requestAnimationFrame(update) (part_000:410): one frame
Part0_update(selectedBand, energy) ==
    /\ isPlaying
    /\ Part0_UpdateBody(selectedBand, energy, "update")
    /\ UNCHANGED isPlaying

\* handlePlay (part_000:83-88) and the effect it triggers (part_000:106-413):
\* the handlers are attached and update runs once, on the stateRef the
\* component has held since it was mounted
handlePlay(selectedBand, energy) ==
    /\ mounted
    /\ ~isPlaying
    /\ isPlaying' = TRUE
    /\ Part0_UpdateBody(selectedBand, energy, "start")

\* handlePause (part_000:90-92) and the cleanup of the effect it triggers
\* (part_000:414-421): the elements are removed and the list is emptied; no
\* other field of stateRef and no ref is written
handlePause ==
    /\ isPlaying
    /\ isPlaying' = FALSE
    /\ removes' = [i \in 1..lastNoteId |->
                      IF \E k \in 1..Len(notes) : notes[k].id = i /\ notes[k].element
                      THEN removes[i] + 1 ELSE removes[i]]
    /\ notes' = clearNotes(notes)
    /\ ev' = [NoEvent EXCEPT !.op = "pause", !.purged = Len(notes),
                             !.released = {notes[k].id : k \in {j \in 1..Len(notes) :
                                                                   notes[j].element}}]
    /\ UNCHANGED <<now, screenHeight, indicatorRect, score, combo, trackBand, activeShape,
                   lastNoteId, lastSpawnTime, lastShapeChangeTime, lastTickTime, bandEnergy,
                   isHittable, feedback, isSuccessFlash, mounted, tasks, feedbackTimeoutRef>>

\* the audio clock moves on while the track plays, observed every Part0Step
Part0Times == {(now \div Part0Step + 1) * Part0Step}

Play(t) ==
    /\ isPlaying
    /\ t <= MaxPart0Time
    /\ now' = t
    /\ ev' = [NoEvent EXCEPT !.op = "advance"]
    /\ UNCHANGED <<isPlaying, screenHeight, indicatorRect, notes, score, combo, trackBand, activeShape,
                   lastNoteId, lastSpawnTime, lastShapeChangeTime, lastTickTime,
                   bandEnergy, isHittable, feedback, isSuccessFlash, mounted, tasks,
                   feedbackTimeoutRef, removes>>

NextPart0 ==
    \/ \E b \in Band, e \in Energies : handlePlay(b, e)
    \/ \E b \in Band, e \in Energies : Part0_update(b, e)
    \/ Part0_handleTap
    \/ handlePause
    \/ \E t \in Part0Times : Play(t)
    \/ \E task \in tasks : TaskFires(task)

SpecPart0 == InitPart0 /\ [][NextPart0]_vars

(***************************************************************************)
(* Vocabulary of the properties.                                           *)
(***************************************************************************)
Metrics == getHitboxMetrics(indicatorRect, screenHeight)

PendingIdx(ns) == {k \in 1..Len(ns) : IsActive(ns[k])}

Ids(ns) == {ns[k].id : k \in 1..Len(ns)}

\* ids of the notes that are pending before a step and hit after it
NewlyHit == {notes[k].id : k \in {j \in PendingIdx(notes) :
                 \E i \in 1..Len(notes') : notes'[i].id = notes[j].id /\ notes'[i].hit}}

CenterY(note, currentTime) == getNotePosition(note, currentTime, screenHeight) + noteRadius

DistanceFromHit(note, currentTime) == Abs(CenterY(note, currentTime) - Metrics.hitCenterY)

InTimeWindow(note, currentTime) == TimeDiff(note, currentTime) <= HIT_WINDOW_MS

InSpaceWindow(note, currentTime) ==
    DistanceFromHit(note, currentTime) <= allowedDistance(CenterY(note, currentTime), Metrics)

PastTopEdge(note, currentTime) ==
    getNotePosition(note, currentTime, screenHeight) >= Metrics.hitTop + topTighten(Metrics)

TapStep == ev'.op = "tap"

HitStep == ev'.op = "tap" /\ ev'.tap = "hit"

UpdateStep == ev'.op \in {"update", "start"}

\* C1: in every reachable state the score is a non-negative integer.
C1_ScoreNonNegative == score \in Nat

C1_Witness == score >= 300 /\ ev.op = "update"

\* C2: a tap that resolves to a matching-shape hit with combo c and score s
\* before it leaves score = s + 100 * (c + 1) and combo = c + 1, and exactly
\* one note goes from pending to hit.
C2_HitAwardsComboScore ==
    [][HitStep => /\ score' = score + 100 * (combo + 1)
                  /\ combo' = combo + 1
                  /\ NewlyHit = {ev'.hitId}
                  /\ \A k \in 1..Len(notes) : notes[k].hit =>
                         \A i \in 1..Len(notes') :
                             notes'[i].id = notes[k].id => notes'[i] = notes[k]]_vars

C2_Witness == ev.tap = "hit" /\ ev.combo0 = 1 /\ combo = 2 /\ score = 300

\* C3: a pending note of the active shape that is never hit is marked missed
\* by a tick (with the penalty of 50 floored at 0 and the combo reset) before
\* it is removed from Notes: no tick drops such a note while it is pending.
C3_TimeoutMissBeforeRemoval ==
    [][UpdateStep => \A k \in PendingIdx(notes) :
                         notes[k].shape = activeShape => notes[k].id \in Ids(notes')]_vars

\* C4: a tap that does not resolve to a matching-shape hit leaves combo = 0 and
\* the score unchanged, marks no note hit and emits miss feedback.
C4_MissTapResetsCombo ==
    [][(TapStep /\ ev'.tap # "hit") => /\ combo' = 0
                                       /\ score' = score
                                       /\ NewlyHit = {}
                                       /\ ev'.fb = "miss"
                                       /\ feedback' = "miss"]_vars

C4_Witness == ev.op = "tap" /\ ev.tap = "none" /\ ev.combo0 = 2 /\ combo = 0 /\ score = 300

\* C5: a tap exactly at the hit time of a pending note of the active shape is
\* judged a hit on that note.
C5_TapAtHitTimeIsHit ==
    [][(TapStep /\ \E k \in PendingIdx(notes) :
                       notes[k].hitTime = now /\ notes[k].shape = activeShape)
          => /\ ev'.tap = "hit"
             /\ \E k \in PendingIdx(notes) : notes[k].hitTime = now /\ notes[k].id = ev'.hitId
             /\ score' = score + 100 * (combo + 1)
             /\ combo' = combo + 1]_vars

\* C6 as stated: a tap finds a candidate exactly when some pending note is
\* within the time window and within the allowed distance.
C6_CandidateIffTimeAndDistance ==
    [][TapStep => (ev'.tap # "none" <=>
                      \E k \in PendingIdx(notes) :
                          InTimeWindow(notes[k], now) /\ InSpaceWindow(notes[k], now))]_vars

\* C6 as amended: a pending note is a candidate exactly when it is within the
\* time window, within the allowed distance and its top has reached
\* hitTop + topTighten; a tap finds a candidate exactly when some pending
\* note satisfies the three.
C6_CandidateIffTimeDistanceAndTop ==
    [][TapStep => /\ \A k \in PendingIdx(notes) :
                        PassesTapChecks(notes[k], now, Metrics) <=>
                            /\ InTimeWindow(notes[k], now)
                            /\ InSpaceWindow(notes[k], now)
                            /\ PastTopEdge(notes[k], now)
                  /\ ev'.tap # "none" <=>
                        \E k \in PendingIdx(notes) :
                            /\ InTimeWindow(notes[k], now)
                            /\ InSpaceWindow(notes[k], now)
                            /\ PastTopEdge(notes[k], now)]_vars

\* a tap was refused although a pending note was within the time window and
\* the allowed distance: the note's top had not reached hitTop + topTighten
C6_Witness ==
    /\ ev.op = "tap" /\ ev.tap = "none"
    /\ \E k \in PendingIdx(notes) :
          /\ InTimeWindow(notes[k], now)
          /\ InSpaceWindow(notes[k], now)
          /\ ~PastTopEdge(notes[k], now)

\* C7: a tap marks a note hit only if, at that instant, the note is within the
\* time window and its centre is within the allowed distance of the hit line.
C7_HitNeedsTimeAndSpace ==
    [][\A k \in PendingIdx(notes) :
          notes[k].id \in NewlyHit =>
              InTimeWindow(notes[k], now) /\ InSpaceWindow(notes[k], now)]_vars

\* a tap inside the time window of a pending note that has passed the top
\* edge but is beyond the allowed distance hit nothing
C7_Witness ==
    /\ ev.op = "tap" /\ ev.tap = "none"
    /\ \E k \in PendingIdx(notes) :
          /\ InTimeWindow(notes[k], now)
          /\ PastTopEdge(notes[k], now)
          /\ ~InSpaceWindow(notes[k], now)

Spacing(a, b, currentTime) ==
    Abs(getNotePosition(a, currentTime, screenHeight)
          - getNotePosition(b, currentTime, screenHeight))

\* C8 as stated: in every reachable state any two pending notes are at least
\* MIN_NOTE_SPACING apart at the current time, between ticks included.
C8_PendingNotesSpaced ==
    \A i, j \in PendingIdx(notes) :
        i # j => Spacing(notes[i], notes[j], now) >= MIN_NOTE_SPACING * PX

\* C8 as amended: with a viewport height that stays fixed, any two pending
\* notes that are both still moving (neither has reached the end of its
\* travel, where the position is clamped) are at least MIN_NOTE_SPACING apart
\* at the current time, between ticks included.
C8_MovingNotesSpaced ==
    \A i, j \in PendingIdx(notes) :
        (/\ i # j
         /\ ~ReachedEnd(notes[i], now, screenHeight)
         /\ ~ReachedEnd(notes[j], now, screenHeight))
            => Spacing(notes[i], notes[j], now) >= MIN_NOTE_SPACING * PX

\* two pending notes on their way, seen between two ticks
C8_Witness ==
    /\ ev.op = "advance"
    /\ \E i, j \in PendingIdx(notes) :
          /\ i # j
          /\ ~ReachedEnd(notes[i], now, screenHeight)
          /\ ~ReachedEnd(notes[j], now, screenHeight)
          /\ now > notes[i].spawnTime /\ now > notes[j].spawnTime

\* C9: at the instant of a successful spawn the new note is at least
\* MIN_NOTE_SPACING away from every other pending note of Notes.
C9_SpawnKeepsSpacing ==
    [][(UpdateStep /\ ev'.spawn = "spawned") =>
          \E n \in 1..Len(notes') :
              /\ notes'[n].id = lastNoteId'
              /\ notes'[n].id \notin Ids(notes)
              /\ notes'[n].spawnTime = now
              /\ \A k \in PendingIdx(notes) :
                    Spacing(notes'[n], notes[k], now) >= MIN_NOTE_SPACING * PX]_vars

\* a note was spawned behind another pending note
C9_Witness ==
    /\ ev.spawn = "spawned"
    /\ \E i, j \in PendingIdx(notes) : i # j /\ notes[j].id = lastNoteId

\* C10: a spawn attempt rejected by the overlap check leaves Notes, lastNoteId
\* and lastSpawnTime as they were and purges no note: the tick goes on with
\* the list it found.
C10_OverlapRejectionFrame ==
    [][(UpdateStep /\ ev'.spawn = "overlap") =>
          /\ lastNoteId' = lastNoteId
          /\ lastSpawnTime' = lastSpawnTime
          /\ ev'.purged = 0
          /\ notes' = UpdateLoop(Len(notes),
                                 [notes |-> notes, score |-> score, combo |-> combo,
                                  hittableNow |-> FALSE, fb |-> "-", missed |-> 0,
                                  removed |-> 0],
                                 now, Metrics).notes
          /\ \A e \in Energies :
                SpawnOutcome(now, e) = "overlap" =>
                    /\ trySpawnNote(now, e).notes = notes
                    /\ trySpawnNote(now, e).lastNoteId = lastNoteId
                    /\ trySpawnNote(now, e).lastSpawnTime = lastSpawnTime]_vars

C10_Witness ==
    /\ ev.op = "update" /\ ev.spawn = "overlap"
    /\ PendingIdx(notes) # {}
    /\ lastSpawnTime < now

\* a tick at which update called trySpawnNote
TickStep == UpdateStep /\ ev'.spawn # "notick"

\* C11: at a tick with now - lastSpawnTime > MAX_IDLE_MS and no pending note
\* in Notes, the spawn attempt creates a note whatever the energy sample is:
\* Notes gains one pending note of the active shape and lastSpawnTime = now.
C11_IdleFallbackSpawns ==
    [][(/\ TickStep
        /\ now - lastSpawnTime > MAX_IDLE_MS
        /\ PendingIdx(notes) = {})
          => /\ ev'.spawn = "spawned"
             /\ lastSpawnTime' = now
             /\ lastNoteId' = lastNoteId + 1
             /\ Cardinality(PendingIdx(notes')) = 1
             /\ \A k \in PendingIdx(notes') :
                   /\ notes'[k].id = lastNoteId'
                   /\ notes'[k].spawnTime = now
                   /\ notes'[k].shape = activeShape']_vars

\* the fallback spawned a note on a sample of zero energy
C11_Witness ==
    /\ ev.op = "update" /\ ev.spawn = "spawned"
    /\ lastSpawnTime = now
    /\ bandEnergy[trackBand].last = 0
    /\ \E k \in PendingIdx(notes) : notes[k].id = lastNoteId

\* C12: in every reachable state the active shape is the image of the active
\* band under bass -> circle, mid -> square, treble -> triangle, the initial
\* state and the state after a rotation included.
C12_ShapeIsImageOfBand ==
    \/ trackBand = "bass" /\ activeShape = "circle"
    \/ trackBand = "mid" /\ activeShape = "square"
    \/ trackBand = "treble" /\ activeShape = "triangle"

\* a hit has just rotated the band
C12_Witness ==
    /\ ev.op = "tap" /\ ev.tap = "hit"
    /\ lastShapeChangeTime = now
    /\ now >= SHAPE_LOCK_DURATION

\* a step that changes the active band, the active shape or the time of the
\* last change
ShapeChangeStep ==
    \/ trackBand' # trackBand
    \/ activeShape' # activeShape
    \/ lastShapeChangeTime' # lastShapeChangeTime

\* C13: the active band and shape change only inside a tap that resolved to a
\* matching hit, at least SHAPE_LOCK_DURATION after the previous change (after
\* time 0 for the first one); frames, spawns and misses never change them.
C13_ShapeChangesOnlyOnHitAfterLock ==
    [][ShapeChangeStep =>
          /\ HitStep
          /\ now' = now
          /\ now - lastShapeChangeTime >= SHAPE_LOCK_DURATION
          /\ lastShapeChangeTime' = now
          /\ trackBand' # trackBand
          /\ activeShape' # activeShape]_vars

\* a hit has rotated the band for the second time
C13_Witness ==
    /\ ev.op = "tap" /\ ev.tap = "hit"
    /\ lastShapeChangeTime = now
    /\ ev.lock0 >= SHAPE_LOCK_DURATION

\* C14: a matching hit with now - lastShapeChangeTime >= SHAPE_LOCK_DURATION
\* leaves a band of {bass, mid, treble} different from the band before it and
\* lastShapeChangeTime = now; a matching hit before the lock has elapsed
\* leaves the band and lastShapeChangeTime as they were.
C14_RotationOnHit ==
    [][HitStep =>
          IF now - lastShapeChangeTime >= SHAPE_LOCK_DURATION
          THEN /\ trackBand' \in {"bass", "mid", "treble"} \ {trackBand}
               /\ lastShapeChangeTime' = now
          ELSE /\ trackBand' = trackBand
               /\ lastShapeChangeTime' = lastShapeChangeTime]_vars

\* after a rotation, a hit before the lock has elapsed again
C14_Witness ==
    /\ ev.op = "tap" /\ ev.tap = "hit"
    /\ lastShapeChangeTime >= SHAPE_LOCK_DURATION
    /\ lastShapeChangeTime < now
    /\ ev.lock0 = lastShapeChangeTime

\* C15: after every tap, whatever its outcome, and after every successful
\* spawn, Notes holds no pending note whose shape differs from the active
\* shape in force at the end of the operation.
C15_NoForeignPendingAfterTapOrSpawn ==
    (ev.op = "tap" \/ ev.spawn = "spawned") =>
        \A k \in PendingIdx(notes) : notes[k].shape = activeShape

\* a tap that rotated the band purged the pending notes of the old shape
C15_Witness ==
    /\ ev.op = "tap" /\ ev.tap = "hit"
    /\ ev.purged > 0
    /\ lastShapeChangeTime = now

\* C16: every note of Notes has hitTime - spawnTime = travelTime > 0, the
\* travel time of its band (bass 1.15, mid 1.0, treble 0.85 of TRAVEL_TIME),
\* which is the band active when it was spawned; no step modifies the
\* spawnTime, hitTime, travelTime or shape of a note.
C16_TravelTimeFixedAtSpawn ==
    [][/\ \A i \in 1..Len(notes') :
             /\ notes'[i].hitTime - notes'[i].spawnTime = notes'[i].travelTime
             /\ notes'[i].hitTime > notes'[i].spawnTime
             /\ \/ notes'[i].shape = "circle" /\ 100 * notes'[i].travelTime = 115 * TRAVEL_TIME
                \/ notes'[i].shape = "square" /\ notes'[i].travelTime = TRAVEL_TIME
                \/ notes'[i].shape = "triangle" /\ 100 * notes'[i].travelTime = 85 * TRAVEL_TIME
             /\ notes'[i].id \notin Ids(notes) =>
                   /\ notes'[i].spawnTime = now
                   /\ \/ trackBand = "bass" /\ notes'[i].shape = "circle"
                      \/ trackBand = "mid" /\ notes'[i].shape = "square"
                      \/ trackBand = "treble" /\ notes'[i].shape = "triangle"
       /\ \A i \in 1..Len(notes'), k \in 1..Len(notes) :
             notes'[i].id = notes[k].id =>
                 /\ notes'[i].spawnTime = notes[k].spawnTime
                 /\ notes'[i].hitTime = notes[k].hitTime
                 /\ notes'[i].travelTime = notes[k].travelTime
                 /\ notes'[i].shape = notes[k].shape]_vars

\* a bass note that was hit is carried through a frame after its hit time
C16_Witness ==
    /\ ev.op = "update"
    /\ \E k \in 1..Len(notes) :
          /\ notes[k].hit
          /\ notes[k].shape = "circle"
          /\ notes[k].travelTime = 2300
          /\ now > notes[k].hitTime

\* C17: the status of a note is one-way: a note that is hit stays hit and is
\* never missed, a note that is missed stays missed and is never hit, as long
\* as it is in Notes, and no note is both hit and missed.
C17_StatusOneWay ==
    [][/\ \A i \in 1..Len(notes'), k \in 1..Len(notes) :
             notes'[i].id = notes[k].id =>
                 /\ notes[k].hit => notes'[i].hit /\ ~notes'[i].missed
                 /\ notes[k].missed => notes'[i].missed /\ ~notes'[i].hit
       /\ \A i \in 1..Len(notes') : ~(notes'[i].hit /\ notes'[i].missed)]_vars

\* a tap hit a second note while the note hit before it is still in Notes
C17_Witness ==
    /\ ev.op = "tap" /\ ev.tap = "hit"
    /\ \E i, k \in 1..Len(notes) :
          /\ i # k
          /\ notes[i].hit /\ notes[k].hit
          /\ notes[k].id = ev.hitId

\* the indices of the notes of Notes that are candidates of a tap at now
Candidates ==
    {k \in PendingIdx(notes) : PassesTapChecks(notes[k], now, Metrics)}

\* C18: when several pending notes are candidates of a tap, the note selected
\* has the least |now - hitTime|, and among candidates with the same
\* |now - hitTime| it is the one earlier in Notes: the selection is a function
\* of Notes and now.
C18_ClosestCandidateFirstOnTie ==
    [][TapStep =>
          IF Candidates = {}
          THEN ClosestNote(notes, now, Metrics) = 0 /\ ev'.tap = "none"
          ELSE \E sel \in Candidates :
                  /\ ClosestNote(notes, now, Metrics) = sel
                  /\ \A j \in Candidates :
                        \/ TimeDiff(notes[sel], now) < TimeDiff(notes[j], now)
                        \/ /\ TimeDiff(notes[sel], now) = TimeDiff(notes[j], now)
                           /\ sel <= j
                  /\ ev'.tap = "hit" => ev'.hitId = notes[sel].id]_vars

\* a tap between two candidates at the same |now - hitTime| hit the first
C18_Witness ==
    /\ ev.op = "tap" /\ ev.tap = "hit"
    /\ \E i, k \in 1..Len(notes) :
          /\ i < k
          /\ notes[i].id = ev.hitId
          /\ ~notes[k].hit
          /\ now - notes[i].hitTime = notes[k].hitTime - now
          /\ PassesTapChecks(notes[k], now, Metrics)

\* the sample a tick left in bandEnergy was a peak: energy > ENERGY_THRESHOLD,
\* energy > avg * PEAK_MULTIPLIER (1.05) and delta > PEAK_DELTA
SampleWasPeak ==
    /\ bandEnergy'[trackBand].last > ENERGY_THRESHOLD
    /\ 100 * bandEnergy'[trackBand].last > 105 * bandEnergy'[trackBand].avg
    /\ bandEnergy'[trackBand].last - bandEnergy[trackBand].last > PEAK_DELTA

\* C19: a note is created only by a tick whose band sample was a peak or at
\* which the idle fallback applied (now - lastSpawnTime > MAX_IDLE_MS and no
\* pending note): with a pending note on the track and no peak nothing is
\* spawned.
C19_SpawnNeedsPeakOrFallback ==
    [][(lastNoteId' # lastNoteId \/ Ids(notes') \ Ids(notes) # {}) =>
          /\ TickStep
          /\ ev'.spawn = "spawned"
          /\ \/ SampleWasPeak
             \/ now - lastSpawnTime > MAX_IDLE_MS /\ PendingIdx(notes) = {}]_vars

\* a tick long after the last spawn, with a pending note on the track and a
\* sample that was no peak, spawned nothing
C19_Witness ==
    /\ ev.op = "update" /\ ev.spawn = "quiet"
    /\ now - lastSpawnTime > MAX_IDLE_MS
    /\ PendingIdx(notes) # {}
    /\ bandEnergy[trackBand].last > ENERGY_THRESHOLD

\* C20: no note is created at a time now with now - lastSpawnTime <
\* MIN_SILENCE_GAP, so that notes with consecutive ids have spawn times at
\* least MIN_SILENCE_GAP apart.
C20_SilenceGapBetweenSpawns ==
    [][/\ lastNoteId' # lastNoteId =>
             /\ now - lastSpawnTime >= MIN_SILENCE_GAP
             /\ lastSpawnTime' = now
             /\ lastNoteId' = lastNoteId + 1
       /\ \A i, k \in 1..Len(notes') :
             /\ notes'[i].id = lastNoteId' => notes'[i].spawnTime = lastSpawnTime'
             /\ notes'[k].id = notes'[i].id + 1 =>
                   notes'[k].spawnTime - notes'[i].spawnTime >= MIN_SILENCE_GAP]_vars

\* a tick less than MIN_SILENCE_GAP after a spawn was turned away
C20_Witness ==
    /\ ev.op = "update" /\ ev.spawn = "gap"
    /\ now > lastSpawnTime
    /\ now - lastSpawnTime < MIN_SILENCE_GAP
    /\ \E k \in PendingIdx(notes) : notes[k].id = lastNoteId /\ notes[k].spawnTime = lastSpawnTime

\* C21: at the end of every run of update the published hittable flag is
\* true exactly when a tap at the same instant, with the same geometry, would
\* find a candidate note among the notes update left in the list.
C21_HittableIffTapCandidate ==
    [][UpdateStep =>
          (isHittable' <=> ClosestNote(notes', now', getHitboxMetrics(indicatorRect',
                                                                     screenHeight')) # 0)]_vars

\* an update publishes TRUE with a candidate note on the way to the hit line
C21_Witness ==
    /\ ev.op = "update"
    /\ isHittable
    /\ \E k \in PendingIdx(notes) : PassesTapChecks(notes[k], now, Metrics)

ProjectStep == ev'.op = "project"

\* C27: getNotePosition returns startTopY at every instant up to the spawn
\* time, and for a fixed note and window height its result never decreases
\* as the time goes up.
C27_StartsAtTopAndNeverRises ==
    [][ProjectStep =>
          /\ ev'.y = getNotePosition(notes[1], now', screenHeight)
          /\ now' <= notes[1].spawnTime => ev'.y = startTopY
          /\ ev'.y >= startTopY
          /\ now' >= now =>
                 ev'.y >= getNotePosition(notes[1], now, screenHeight)]_vars

\* the note is projected further down than where it was before its spawn time
C27_Witness ==
    /\ ev.op = "project"
    /\ ev.from < notes[1].spawnTime
    /\ getNotePosition(notes[1], ev.from, screenHeight) = startTopY
    /\ now > notes[1].spawnTime
    /\ ev.y > startTopY

\* hitDistance / totalDistance lies outside [0.01, 0.99] (App.tsx:250)
HitProgressClamped(height) ==
    LET totalDistance == offScreenCenterY(height) - startCenterY
        hitDistance == nominalHitCenterY(height) - startCenterY
    IN  \/ 100 * (hitDistance \div PX) < totalDistance \div PX
        \/ 100 * (hitDistance \div PX) > 99 * (totalDistance \div PX)

\* C28: for every band's travel time and every window height, at
\* now = hitTime the centre of the note (its top + NOTE_SIZE / 2) is at
\* hitCenterY = height - HIT_ZONE_OFFSET - EXPECTED_SHAPE_SIZE / 2.
C28_CentreAtHitLineAtHitTime ==
    (ev.op = "project" /\ now = notes[1].hitTime) =>
        ev.y + noteRadius = nominalHitCenterY(screenHeight)

\* C28, amended: the same at every window height for which hitProgress is
\* not clamped; under the clamp the note is short of (or past) the hit line.
C28_CentreAtHitLineUnlessClamped ==
    (ev.op = "project" /\ now = notes[1].hitTime) =>
        /\ ~HitProgressClamped(screenHeight) =>
               ev.y + noteRadius = nominalHitCenterY(screenHeight)
        /\ HitProgressClamped(screenHeight) =>
               ev.y + noteRadius # nominalHitCenterY(screenHeight)

\* a bass note at its hit time in an 800 px window, its centre on the hit line
C28_Witness ==
    /\ ev.op = "project"
    /\ now = notes[1].hitTime
    /\ notes[1].travelTime = getTravelTimeForBand("bass")
    /\ ~HitProgressClamped(screenHeight)
    /\ ev.y + noteRadius = nominalHitCenterY(screenHeight)

\* ids go up strictly along the list and none is beyond the counter
IdsInSpawnOrder(ns, last) ==
    /\ \A i, j \in 1..Len(ns) : i < j => ns[i].id < ns[j].id
    /\ \A i \in 1..Len(ns) : ns[i].id >= 1 /\ ns[i].id <= last

\* C29: the ids in the note list are pairwise distinct and strictly
\* increasing along the list, every id is at most lastNoteId, and lastNoteId
\* never decreases; removals and purges keep the notes that stay in order.
C29_IdsUniqueAndIncreasing ==
    [][/\ IdsInSpawnOrder(notes, lastNoteId)
       /\ IdsInSpawnOrder(notes', lastNoteId')
       /\ lastNoteId' >= lastNoteId
       /\ \A i, j \in 1..Len(notes') :
              (i < j /\ notes'[i].id \in Ids(notes) /\ notes'[j].id \in Ids(notes)) =>
                  \E a, b \in 1..Len(notes) :
                      a < b /\ notes[a].id = notes'[i].id /\ notes[b].id = notes'[j].id]_vars

\* two notes in the list, the later spawned one last, carrying the counter
C29_Witness ==
    /\ Len(notes) >= 2
    /\ notes[1].id < notes[2].id
    /\ notes[Len(notes)].id = lastNoteId

\* a miss event: a tap that hits no note of the active shape, or an update
\* in which a note of the active shape timed out
MissStep == (TapStep /\ ~HitStep) \/ (UpdateStep /\ ev'.fb = "miss")

C22_IdleIsEmptyAndQuiet ==
    [][/\ ~isPlaying => notes = << >>
       /\ ev'.op = "cleanup" => (~isPlaying' /\ notes' = << >>)
       /\ ~isPlaying => ev'.op \in {"start", "timer"}
       /\ (~isPlaying /\ ev'.op # "start") =>
              (~isPlaying' /\ UNCHANGED <<score, combo, notes, trackBand, activeShape>>)]_vars

\* the session is stopped after a hit, with notes in the list at the stop
C22_Witness ==
    /\ ev.op = "cleanup"
    /\ ev.purged >= 1
    /\ score > 0
    /\ ~isPlaying
    /\ notes = << >>

\* C23: when the session stops every outstanding delayed task is cancelled:
\* no task set before the stop fires after it.
C23_NoTaskFiresAfterStop ==
    [][~mounted => ev'.op # "timer"]_vars

\* C24: a delayed task that fires, between any two handlers, changes none of
\* score, combo, notes, lastSpawnTime, the tracked band and the active shape;
\* it removes an element from the page or clears the feedback or the flash.
C24_TaskLeavesGameStateAlone ==
    [][ev'.op = "timer" =>
          /\ UNCHANGED <<score, combo, notes, lastSpawnTime, trackBand, activeShape,
                         lastNoteId, lastShapeChangeTime, lastTickTime, bandEnergy,
                         isPlaying, isHittable>>
          /\ tasks' \subseteq tasks
          /\ feedback' \in {feedback, "none"}
          /\ \A i \in 1..lastNoteId : removes'[i] >= removes[i]]_vars

\* the removal timer of an exploded note fires while the game plays on with
\* notes in the list, and takes the element out of the page
C24_Witness ==
    /\ ev.op = "timer"
    /\ ev.task = "dispose"
    /\ ev.released # {}
    /\ isPlaying
    /\ Len(notes) >= 1
    /\ score > 0

\* C26: remove() is called at most once on the element of each note, over
\* the off-screen removal, the removal after the hit grace, the removal timer
\* of an explosion and the cleanup; and an update that takes out of the list
\* a note whose element was handed to an explosion, or that no longer holds
\* a note, calls remove() on nothing of that note.
C26_ElementReleasedAtMostOnce ==
    [][/\ \A i \in 1..lastNoteId' : removes'[i] <= 1
       /\ UpdateStep =>
              \A i \in 1..lastNoteId :
                  (\A k \in 1..Len(notes) : notes[k].id = i => ~notes[k].element) =>
                      removes'[i] = removes[i]]_vars

\* an update takes the first note, which was hit, out of the list after its
\* grace, when the removal timer of its explosion has already removed the
\* element; the second note stays
C26_Witness ==
    /\ ev.op = "update"
    /\ ev.removed = 1
    /\ ev.released = {}
    /\ lastNoteId = 2
    /\ Ids(notes) = {2}
    /\ removes[1] = 1
    /\ DisposeTask(1) \notin tasks

\* C39: in every reachable state every pending note of the list has the
\* active shape, and with it the travel time of the tracked band; so no tap
\* selects a candidate of another shape.
C39_PendingNotesHaveActiveShape ==
    [][/\ \A k \in PendingIdx(notes') :
             /\ notes'[k].shape = activeShape'
             /\ notes'[k].travelTime = getTravelTimeForBand(trackBand')
       /\ \A i, j \in PendingIdx(notes') : notes'[i].travelTime = notes'[j].travelTime
       /\ TapStep => ev'.tap # "mismatch"]_vars

\* after a rotation of the band a note of the new shape is pending
C39_Witness ==
    /\ lastShapeChangeTime > 0
    /\ \E k \in PendingIdx(notes) :
          /\ notes[k].spawnTime > lastShapeChangeTime
          /\ notes[k].shape = activeShape

\* ids of the notes that are pending before a step and missed after it
NewlyMissed == {notes[k].id : k \in {j \in PendingIdx(notes) :
                   \E i \in 1..Len(notes') : notes'[i].id = notes[j].id /\ notes'[i].missed}}

\* C40: a note changes the score at most once: the score changes only in a
\* tap that turns one pending note into a hit note, or in an update that
\* turns pending notes into missed ones; no note is both hit and missed, a
\* note that is hit or missed stays so while it is in the list, and ids are
\* not given twice, so a later tap or timeout test never takes it again.
C40_NoteScoredAtMostOnce ==
    [][/\ score' # score =>
             \/ HitStep /\ Cardinality(NewlyHit) = 1 /\ ev'.hitId \in NewlyHit
             \/ UpdateStep /\ NewlyMissed # {}
       /\ HitStep => NewlyHit = {ev'.hitId}
       /\ ~HitStep => NewlyHit = {}
       /\ ~UpdateStep => NewlyMissed = {}
       /\ \A i \in 1..Len(notes') : ~(notes'[i].hit /\ notes'[i].missed)
       /\ \A k \in 1..Len(notes), i \in 1..Len(notes') :
              notes'[i].id = notes[k].id =>
                  /\ notes[k].hit => notes'[i].hit
                  /\ notes[k].missed => notes'[i].missed
       /\ \A i \in 1..Len(notes') :
              notes'[i].id \notin Ids(notes) => notes'[i].id > lastNoteId]_vars

\* a second tap while the note that was just hit is still in the list and
\* still inside the window: it finds no candidate and scores nothing
C40_Witness ==
    /\ ev.op = "tap"
    /\ ev.tap = "none"
    /\ score = ScoreAfterHit(0, 0)
    /\ \E k \in 1..Len(notes) :
          notes[k].hit /\ PassesTapChecks(notes[k], now, Metrics)

\* C37: bandEnergy, lastSpawnTime and lastNoteId change only in a tick, inside
\* trySpawnNote: an attempt turned away by the silence gap changes none of
\* them, an attempt changes the state of the tracked band only, and a tap
\* changes none of them and adds no note.
C37_SpawnerStateChangesOnlyInSpawn ==
    [][/\ ~TickStep => UNCHANGED <<bandEnergy, lastSpawnTime, lastNoteId>>
       /\ (TickStep /\ ev'.spawn = "gap") => UNCHANGED <<bandEnergy, lastSpawnTime, lastNoteId>>
       /\ \A b \in Band \ {trackBand} : bandEnergy'[b] = bandEnergy[b]
       /\ TapStep => Ids(notes') \subseteq Ids(notes)
       /\ Ids(notes') \ Ids(notes) # {} => (TickStep /\ ev'.spawn = "spawned")]_vars

\* a peak of the tracked band spawned a note and stamped that band's state,
\* the state of the two other bands is as it was at the start
C37_Witness ==
    /\ ev.op = "update"
    /\ ev.spawn = "spawned"
    /\ bandEnergy[trackBand].lastTrigger = now
    /\ bandEnergy[trackBand].last > 0
    /\ \A b \in Band \ {trackBand} :
          bandEnergy[b] = [avg |-> 0, last |-> 0, lastTrigger |-> 0 - BAND_COOLDOWN_MS]

\* C36: spawn attempts follow the tick grid: an update invokes trySpawnNote
\* exactly when now - lastTickTime >= TICK_INTERVAL, and then sets
\* lastTickTime = now; lastTickTime changes nowhere else, so that it is the
\* time of the last attempt and two attempts in a row are at least
\* TICK_INTERVAL apart.
C36_SpawnAttemptsOnTickGrid ==
    [][/\ UpdateStep => (TickStep <=> now - lastTickTime >= TICK_INTERVAL)
       /\ TickStep => (lastTickTime' = now /\ now' = now)
       /\ ~TickStep => lastTickTime' = lastTickTime
       /\ ~TickStep => UNCHANGED <<lastSpawnTime, lastNoteId, bandEnergy>>
       /\ TickStep => lastTickTime' - lastTickTime >= TICK_INTERVAL]_vars

\* a frame that comes less than TICK_INTERVAL after a spawn attempt makes none
C36_Witness ==
    /\ ev.op = "update"
    /\ ev.spawn = "notick"
    /\ lastTickTime > 0
    /\ now > lastTickTime
    /\ now - lastTickTime < TICK_INTERVAL

\* the feedback expiries that are outstanding
FeedbackTimers == {t \in tasks : t.kind = "feedback"}

\* C38: a feedback expiry only clears the feedback it was set for: a new
\* feedback cancels the expiry of the one it replaces, so at most one expiry
\* is outstanding, it is the one feedbackTimeoutRef names, the feedback on
\* screen keeps its expiry outstanding, and the feedback is cleared only by
\* that expiry firing.
C38_ExpiryClearsOwnFeedback ==
    [][/\ FeedbackTimers' \subseteq {FeedbackTask(feedbackTimeoutRef')}
       /\ (mounted' /\ feedback' # "none") => TimerPending(tasks', feedbackTimeoutRef')
       /\ (ev'.op = "timer" /\ ev'.task = "feedback") =>
              /\ ev'.taskId = feedbackTimeoutRef
              /\ FeedbackTimers' = {}
       /\ (feedback # "none" /\ feedback' = "none") =>
              /\ ev'.op = "timer" /\ ev'.task = "feedback"
              /\ ev'.taskId = feedbackTimeoutRef
       /\ ev'.fb \in {"hit", "miss"} =>
              /\ feedback' = ev'.fb
              /\ FeedbackTimers' = {FeedbackTask(feedbackTimeoutRef')}
              /\ ev'.cleared <=> TimerPending(tasks, feedbackTimeoutRef)]_vars

\* a miss feedback that replaced a hit feedback still on screen, whose
\* expiry was cancelled
C38_Witness ==
    /\ ev.op = "tap"
    /\ ev.fb = "miss"
    /\ ev.cleared
    /\ score > 0
    /\ feedback = "miss"
    /\ mounted
    /\ FeedbackTimers = {FeedbackTask(feedbackTimeoutRef)}

\* the note with this id is in state.notes
InNotes(i) == i \in Ids(notes)

\* the note with this id is in the list and below the removal line before the
\* clock reaches the end of the modelled time
LeavesInTime(i) ==
    \E k \in 1..Len(notes) : notes[k].id = i /\ IsOffScreen(notes[k], LastTime)

\* C35: while frames keep coming and the clock keeps moving, every note leaves
\* state.notes: no update leaves behind a hit note more than 200 ms past its
\* hit time or a note whose top is below viewport height + NOTE_SIZE + 50, and
\* every note whose removal line is reached within the modelled time is
\* eventually out of the list.
C35_EveryNoteEventuallyRemoved ==
    /\ [][UpdateStep => \A k \in 1..Len(notes') :
                            /\ ~IsOffScreen(notes'[k], now')
                            /\ ~IsPastGrace(notes'[k], now')]_vars
    /\ \A i \in 1..MaxNoteId : (InNotes(i) /\ LeavesInTime(i)) ~> ~InNotes(i)

\* an update removed the first note when it had fallen below the removal line
C35_Witness ==
    /\ ev.op = "update"
    /\ ev.removed = 1
    /\ lastNoteId >= 1
    /\ ~InNotes(1)
    /\ score = 0

\* C31: every session starts from a fresh game state: whenever the pause/play
\* variant goes from idle to playing, the stateRef the session starts on has
\* score 0, combo 0, no note, and lastNoteId, lastSpawnTime and
\* lastShapeChangeTime at their initial values.
C31_NoStateSurvivesSessions ==
    [][(~isPlaying /\ isPlaying') =>
           /\ score = 0
           /\ combo = 0
           /\ notes = << >>
           /\ lastNoteId = 0
           /\ lastSpawnTime = 0 - Part0_MIN_SILENCE_GAP
           /\ lastShapeChangeTime = 0]_vars

\* C32: a note goes from pending to missed only in an update, and only when
\* now > hitTime + HIT_WINDOW_MS, so that it is outside the time window of a
\* tap at that instant; no tap and no other step marks a note missed.
C32_MissedOnlyByLateTick ==
    [][/\ \A k \in PendingIdx(notes) :
              notes[k].id \in NewlyMissed =>
                  /\ UpdateStep
                  /\ now' = now
                  /\ now > notes[k].hitTime + Part0_HIT_WINDOW_MS
                  /\ TimeDiff(notes[k], now) > Part0_HIT_WINDOW_MS
                  /\ ~Part0_PassesTapChecks(notes[k], now)
       /\ ~UpdateStep => NewlyMissed = {}
       /\ TapStep => \A j \in 1..Len(notes') : notes'[j].missed =>
                         \E k \in 1..Len(notes) : notes[k].id = notes'[j].id /\ notes[k].missed]_vars

\* an update marked a note of the active shape missed after its window
C32_Witness ==
    /\ ev.op = "update"
    /\ ev.missed = 1
    /\ ev.penalised = 1
    /\ \E k \in 1..Len(notes) :
          /\ notes[k].missed
          /\ notes[k].shape = activeShape
          /\ now > notes[k].hitTime + Part0_HIT_WINDOW_MS

\* the pending notes an update finds past their window and still on screen
TimedOutIdx == {k \in PendingIdx(notes) :
                   /\ now > notes[k].hitTime + Part0_HIT_WINDOW_MS
                   /\ ~IsOffScreen(notes[k], now)}

\* C33: in the variant without purging an update marks every pending note
\* that is past hitTime + HIT_WINDOW_MS missed; a timed-out note whose shape
\* is not the active shape leaves score and combo as they are, and each
\* timed-out note of the active shape sets the combo to 0 and takes 50 off the
\* score, floored at 0.
C33_ForeignShapeTimeoutHasNoPenalty ==
    [][UpdateStep =>
           /\ \A k \in TimedOutIdx :
                 \E j \in 1..Len(notes') : notes'[j].id = notes[k].id /\ notes'[j].missed
           /\ ({k \in TimedOutIdx : notes[k].shape = activeShape} = {})
                 => (score' = score /\ combo' = combo)
           /\ ({k \in TimedOutIdx : notes[k].shape = activeShape} # {})
                 => /\ combo' = 0
                    /\ score' = Max(0, score - MISS_PENALTY
                                       * Cardinality({k \in TimedOutIdx :
                                                         notes[k].shape = activeShape}))]_vars

\* a note of another shape timed out while the score and the combo of an
\* earlier hit stay
C33_Witness ==
    /\ ev.op = "update"
    /\ ev.missed = 1
    /\ ev.penalised = 0
    /\ score > 0
    /\ combo > 0
    /\ \E k \in 1..Len(notes) : notes[k].missed /\ notes[k].shape # activeShape

=============================================================================
